---- MODULE Spec2Model ----
(***************************************************************************)
(* Termite master: the mirror pool (mirrorConnections), the per-mirror     *)
(* pending-change queue (mirrorConnection) and the per-mirror file-set     *)
(* waiter (fileSetWaiter).                                                 *)
(*                                                                         *)
(* Specifications over the same variables:                                 *)
(*   Spec        the mirror pool driven by job threads and housekeeping    *)
(*   SpecQueue   the pool with the pending-change queues of its mirrors    *)
(*   SpecWaiter  one mirror's file-set waiter driven by concurrent jobs    *)
(*                                                                         *)
(* A mirrorConnection object is identified by what the program can tell    *)
(* about it: the object in the mirrors map under an address is "the open   *)
(* mirror of that address"; an object that left the map never re-enters    *)
(* it, the pool reads counters and queues of the map's values only, and    *)
(* drop reads nothing but workerAddr, so a reference to such an object is  *)
(* "a dropped mirror of that address".                                     *)
(***************************************************************************)
EXTENDS Integers, Sequences, FiniteSets, TLC

\* ------------------------------------------------------------------ bounds
NAddrs == 2          \* worker addresses the coordinator may hand out
NJobs == 2           \* concurrent job threads of the master
NFiles == 2          \* distinct FileAttr values
MaxPending == 2      \* cap on the length of a pendingChanges queue
wantedMaxJobs == 1   \* MasterOptions.MaxJobs handed to newMirrorConnections
MaxId == 2           \* FileSetIds handed out in one run
NBytes == 2          \* distinct byte values in a blob
MaxBlob == 4         \* length of the longest blob
NHashes == 2         \* distinct content digests
MaxQueued == 6       \* FileAttrs queued on one mirror in one run

\* ------------------------------------------------------- program constants
keepAliveNs == 1     \* setKeepAliveNs: the clock is counted in units of the keep-alive
chanCap == 2         \* getChannel: make(chan int, 10), scaled to two values

Addrs == 1..NAddrs
\* The FileSetIds that fill one channel, with one more for the broadcast that
\* finds it full and one for the owner of the channel.
LastId == chanCap + 2
Ids == 1..LastId
Jobs == 1..NJobs
Files == 1..NFiles
NoAddr == 0
NoJob == 0

\* A reference to a mirrorConnection: its workerAddr, and whether it is the
\* object the mirrors map holds under that address.
NoConn == [addr |-> NoAddr, inMap |-> FALSE]
ConnRefs == {NoConn} \cup [addr : Addrs, inMap : BOOLEAN]

\* A WorkResponse as wait reads it: rep.FileSetId and whether rep.FileSet is nil.
NoRep == [id |-> 0, nil |-> TRUE]

\* A FileSet's Files: a non-empty ordered list of FileAttr, each entry named by
\* its position in the list.
FileSets == {[i \in 1..k |-> i] : k \in Files}

VARIABLES
  \* ---- mirrorConnections (the pool)
  workers,        \* keys of me.workers
  mirrors,        \* keys of me.mirrors
  sinceAction,    \* time.Nanoseconds() - me.lastActionNs, saturating at keepAliveNs
  lock,           \* holder of the pool's sync.Mutex, NoJob when free
  \* ---- the mirrorConnection in the mirrors map under each address
  maxJobs,        \* mc.maxJobs
  availableJobs,  \* mc.availableJobs
  pendingChanges, \* mc.pendingChanges
  \* ---- job threads
  pc,             \* position of each job thread
  held,           \* the mirror a job thread got from pick
  tcTodo,         \* tryConnect: addresses the range loop has not visited yet
  tcBlack,        \* tryConnect: blacklist
  tcWanted,       \* tryConnect: wanted
  tcAddr          \* tryConnect: address of the createMirror call in progress

\* The fileSetWaiter of the mirror under address 1 and the jobs running on it.
\* The completion channel a job got from getChannel is named by the job.
VARIABLES
  channels,       \* keys of me.channels that belong to jobs inside their run
  leaked,         \* me.channels holds channels of jobs that have returned
  buf,            \* the values buffered in each job's channel
  chClosed,       \* whether each job's channel has been closed
  wlock,          \* holder of the waiter's sync.Mutex, NoJob when free
  bTodo,          \* broadcast: channels the range loop has not visited yet
  wpc,            \* position of each job in its run and in wait
  rep,            \* the WorkResponse of each job: FileSetId, and FileSet == nil
  werr,           \* the error wait returned to each job
  panicked,       \* the run-time panic that ended the master process, if any
  nextId,         \* the next FileSetId to be handed out
  \* ---- history, read by the properties only
  rcvd,           \* the values each job has received from its channel so far
  bcastOrder,     \* the FileSetIds in the order their broadcasts took the lock
  ended,          \* the FileSetIds whose broadcast is over
  regd,           \* per FileSetId: the other channels registered at its broadcast
  flushed,        \* the channels that were registered at a flush that is over
  replayed,       \* FileSetIds whose replayFileModifications succeeded
  updated,        \* FileSetIds handed to fileServer.updateFiles
  queued          \* FileSetIds handed to mirrors.queueFiles, in that order

\* The run of a job on the mirror pick returned, up to the worker's response.
VARIABLES
  jstep,          \* position of each job in its run on the mirror
  lastCalls,      \* the Mirror.Update requests of each job's last sendFiles
  sendErr         \* whether each job's last sendFiles returned an error

\* History, read by the properties only.
VARIABLES
  dropped,        \* whether drop has been called with the mirror a job holds
  reaped,         \* dropConnections ran and no mirror has been created since
  tcOpened        \* mirrors installed by the tryConnect call in progress

poolVars == <<workers, mirrors, sinceAction, lock>>
connVars == <<maxJobs, availableJobs, pendingChanges>>
jobVars == <<pc, held, tcTodo, tcBlack, tcWanted, tcAddr>>
chanVars == <<channels, leaked, buf, chClosed, wlock, bTodo>>
waitVars == <<wpc, rep, werr, panicked, nextId>>
histVars == <<rcvd, bcastOrder, ended, regd, flushed, replayed, updated, queued>>
waiterVars == <<chanVars, waitVars, histVars>>
sendVars == <<jstep, lastCalls, sendErr>>
dropVars == <<dropped, reaped, tcOpened>>
\* ContentCache and its callers.
VARIABLES
  have,           \* ContentCache.have: the digests recorded as present
  onDisk,         \* the digests with a blob at Path(digest)
  inMemoryCache,  \* the digests held by the LRU
  faulting,       \* ContentCache.faulting
  fatal,          \* log.Fatal has ended the process
  spc,            \* where each caller is in its store operation
  sdig,           \* the digest of that operation
  smem,           \* whether the operation has the content in memory
  returned        \* history: the digests a save path has returned

\* mirrorConnection.replay and the master's writable root.
VARIABLES
  rpCaller,       \* the job inside replay, NoJob when there is none
  rpFiles,        \* fset.Files of the call
  rpIdx,          \* position of the range loop in fset.Files
  rpRes,          \* what the call returns: "" while it runs, "ok" or "err"
  rpApplied,      \* history: the call has run master.replay
  rpQueued,       \* history: the call has run mirrors.queueFiles
  root,           \* the FileAttrs applied to the master's writable root
  fhash           \* info.Hash of each FileAttr

\* The worker's RpcFs and the master's attributes it mirrors.
VARIABLES
  fsAttr,         \* the master's attribute of each path
  attrCache,      \* RpcFs.attr: the worker's cached entry of each path
  dirCached,      \* RpcFs.attr has the entry of the parent directory
  dirNames,       \* NameModeMap of that entry
  unshipped       \* paths replayed by the master and not yet sent by Update

\* ContentCache with the bytes: one store, one caller, and a peer that has blob.
VARIABLES
  contentCache    \* the fields below, in one record

\* the byte sequence B: what is saved, and what the peer holds
blob == contentCache.blob
\* the store was opened on a directory that holds B already
pre == contentCache.pre
\* the peer has B in its LRU (else only on its disk)
peerMem == contentCache.peerMem
\* the bytes of the file at Path(d), for each d with a file
diskBytes == contentCache.diskBytes
\* the content of each LRU entry
memBytes == contentCache.memBytes
\* FetchFromServer: "idle", "loop" or "done"
bpc == contentCache.bpc
\* hash, the digest FetchFromServer is asked for
bhash == contentCache.bhash
\* written
written == contentCache.written
\* output: the HashWriter of the chunks (open is FALSE for nil)
output == contentCache.output
\* history: the ContentRequests sent to the fetcher
reqs == contentCache.reqs
\* history: rep.Chunk of every reply, concatenated
received == contentCache.received
\* history: calls of me.Save made by FetchFromServer
nSave == contentCache.nSave
\* what FetchFromServer returned: "", "nil", "err" or "fatal"
bres == contentCache.bres
\* history: what went wrong in the fetch: "rpc", "io", "tamper"
faults == contentCache.faults
\* history: the digests Save and SaveStream returned
bret == contentCache.bret
\* history: the reply of Serve, and whether the LRU gave it
served == contentCache.served

\* One mirror's queueFiles and sendFiles, step by step.
VARIABLES
  changes         \* the fields below, in one record

\* holder of mc.pendingChangesMutex, NoJob when free
pendingChangesMutex == changes.mutex
\* where each thread is in sendFiles: "idle", "call" or "clear"
sfpc == changes.sfpc
\* req.Files of each thread's Mirror.Update
updFiles == changes.files
\* history: every FileAttr appended to pendingChanges, in that order
appended == changes.appended
\* history: the Files of the Mirror.Update calls that returned nil, in that order
carried == changes.carried

Absent == 0
Unknown == 0 - 1
Hashes == 1..NHashes
NoHash == 0
storeVars == <<have, onDisk, inMemoryCache, faulting, fatal, spc, sdig, smem, returned>>
attrVars == <<fsAttr, attrCache, dirCached, dirNames, unshipped>>
blobVars == <<contentCache>>
shipVars == <<changes>>
replayVars == <<rpCaller, rpFiles, rpIdx, rpRes, rpApplied, rpQueued, root, fhash>>
nonStoreVars == <<poolVars, connVars, jobVars, waiterVars, sendVars, dropVars, replayVars, attrVars, blobVars, shipVars>>
extVars == <<sendVars, dropVars, storeVars, replayVars, attrVars, blobVars, shipVars>>
vars == <<poolVars, connVars, jobVars, waiterVars, extVars>>

\* ----------------------------------------------------------------- helpers
RECURSIVE SumOver(_, _)
SumOver(S, f) ==
  IF S = {} THEN 0
  ELSE LET x == CHOOSE y \in S : TRUE IN f[x] + SumOver(S \ {x}, f)

\* The orders in which a range loop may visit the keys of a map.
Perms(S) == {p \in [1..Cardinality(S) -> S] : \A i, j \in 1..Cardinality(S) : p[i] = p[j] => i = j}

\* mirrorConnections.availableJobs()
PoolAvailableJobs(m, av) ==
  SumOver(m, [a \in Addrs |-> IF av[a] > 0 THEN av[a] ELSE 0])

\* mirrorConnections.maxJobs()
PoolMaxJobs(m, mx) == SumOver(m, mx)

\* The fields of the objects that are not in the map (any more).
Scrub(f, m, zero) == [a \in Addrs |-> IF a \in m THEN f[a] ELSE zero]

\* The references of the job threads after the mirrors under gone left the map.
Unmap(h, gone) ==
  [t \in Jobs |-> IF h[t].addr \in gone THEN [h[t] EXCEPT !.inMap = FALSE] ELSE h[t]]

TypeOK ==
  /\ workers \subseteq Addrs
  /\ mirrors \subseteq Addrs
  /\ lock \in Jobs \cup {NoJob}
  /\ sinceAction \in 0..keepAliveNs
  /\ held \in [Jobs -> ConnRefs]
  /\ \A t \in Jobs : held[t].inMap => held[t].addr \in mirrors

\* newFileSetWaiter, and no job has registered a channel yet.
WaiterInit ==
  /\ channels = {}
  /\ leaked = FALSE
  /\ buf = [t \in Jobs |-> <<>>]
  /\ chClosed = [t \in Jobs |-> FALSE]
  /\ wlock = NoJob
  /\ bTodo = {}
  /\ wpc = [t \in Jobs |-> "none"]
  /\ rep = [t \in Jobs |-> NoRep]
  /\ werr = [t \in Jobs |-> ""]
  /\ panicked = ""
  /\ nextId = 1
  /\ rcvd = [t \in Jobs |-> <<>>]
  /\ bcastOrder = <<>>
  /\ ended = {}
  /\ regd = [i \in Ids |-> {}]
  /\ flushed = {}
  /\ replayed = {}
  /\ updated = {}
  /\ queued = <<>>

\* ------------------------------------------------------------ content store
\* ContentCache.  Every section the code runs between mutex.Lock and
\* mutex.Unlock without cond.Wait in it is one step; disk I/O, which the code
\* does with the mutex released, is a step of its own.  The LRU holds 1024
\* entries, more than there are digests here, so Add never evicts.
StoreInit(db) ==
  /\ have = db
  /\ onDisk = db
  /\ inMemoryCache = {}
  /\ faulting = {}
  /\ fatal = FALSE
  /\ spc = [t \in Jobs |-> "idle"]
  /\ sdig = [t \in Jobs |-> NoHash]
  /\ smem = [t \in Jobs |-> FALSE]
  /\ returned = {}

\* One replay call at a time, made by a job for the FileSet its worker sent
\* back.  fhash is info.Hash of each FileAttr (NoHash for ""), root the
\* FileAttrs the master has applied to its writable root and attributes.
ReplayInit ==
  /\ rpCaller = NoJob
  /\ rpFiles = <<>>
  /\ rpIdx = 0
  /\ rpRes = ""
  /\ rpApplied = FALSE
  /\ rpQueued = FALSE
  /\ root = {}
  /\ fhash = [f \in Files |-> NoHash]

\* The worker's caches are empty and the master has replayed nothing.
AttrInit ==
  /\ fsAttr = [p \in Files |-> Absent]
  /\ attrCache = [p \in Files |-> Unknown]
  /\ dirCached = FALSE
  /\ dirNames = {}
  /\ unshipped = {}

\* No blob, nothing fetched, nothing saved.
NoWriter == [open |-> FALSE, dest |-> <<>>, hasher |-> 1]
BlobInit ==
  contentCache =
    [blob |-> <<>>, pre |-> FALSE, peerMem |-> FALSE, diskBytes |-> <<>>, memBytes |-> <<>>,
     bpc |-> "idle", bhash |-> NoHash, written |-> 0, output |-> NoWriter, reqs |-> <<>>,
     received |-> <<>>, nSave |-> 0, bres |-> "", faults |-> {}, bret |-> {}, served |-> <<>>]

\* Nothing queued, nothing sent, the mutex free.
ShipInit ==
  changes = [mutex |-> NoJob, sfpc |-> [t \in Jobs |-> "idle"], files |-> [t \in Jobs |-> <<>>],
             appended |-> <<>>, carried |-> <<>>]

\* No job has started its run on a mirror.
ExtInit ==
  /\ jstep = [t \in Jobs |-> "send"]
  /\ lastCalls = [t \in Jobs |-> <<>>]
  /\ sendErr = [t \in Jobs |-> FALSE]
  /\ dropped = [t \in Jobs |-> FALSE]
  /\ reaped = FALSE
  /\ tcOpened = 0
  /\ StoreInit({})
  /\ ReplayInit
  /\ AttrInit
  /\ BlobInit
  /\ ShipInit

Init ==
  /\ WaiterInit
  /\ ExtInit
  /\ workers = {}
  /\ mirrors = {}
  /\ sinceAction = keepAliveNs
  /\ lock = NoJob
  /\ maxJobs = [a \in Addrs |-> 0]
  /\ availableJobs = [a \in Addrs |-> 0]
  /\ pendingChanges = [a \in Addrs |-> <<>>]
  /\ pc = [t \in Jobs |-> "idle"]
  /\ held = [t \in Jobs |-> NoConn]
  /\ tcTodo = {}
  /\ tcBlack = {}
  /\ tcWanted = 0
  /\ tcAddr = NoAddr

\* ------------------------------------------------------------ pool: pick
\* master.createMirror(addr, wanted): the outcomes of one connect attempt, a
\* failure or a mirror whose granted capacity does not exceed the request.
CreateMirror(addr, wanted) ==
  {[ok |-> FALSE, jobs |-> 0]} \cup {[ok |-> TRUE, jobs |-> g] : g \in 0..wanted}

\* fetchWorkers(): the coordinator's answer; empty on any dial or rpc error.
FetchWorkers == SUBSET Addrs

\* The selection loop without the test of v.availableJobs.
RECURSIVE FindLoopCountOnly(_, _, _, _)
FindLoopCountOnly(order, j, k, av) ==
  IF k > Len(order) THEN order[Len(order)]
  ELSE IF j <= 1 THEN order[k]
  ELSE FindLoopCountOnly(order, j - 1, k + 1, av)

\* The selection loop of pick over one iteration order of the mirrors map.
RECURSIVE FindLoop(_, _, _, _)
FindLoop(order, j, k, av) ==
  IF k > Len(order) THEN NoAddr
  ELSE IF j <= 0 \/ av[order[k]] > 0 THEN order[k]
  ELSE FindLoop(order, j - 1, k + 1, av)

\* j as pick computes it; r is the value of rand.Intn(len(me.mirrors)).
PickJ(m, av, r) ==
  IF PoolAvailableJobs(m, av) = 0 THEN r ELSE Cardinality(m)

\* Select without the decrement of the chosen mirror's counter.
SelectNoDecrement(t) ==
  \E order \in Perms(mirrors), r \in 0..(Cardinality(mirrors) - 1) :
    LET found == FindLoop(order, PickJ(mirrors, availableJobs, r), 1, availableJobs) IN
    /\ found # NoAddr
    /\ availableJobs' = availableJobs
    /\ held' = [held EXCEPT ![t] = [addr |-> found, inMap |-> TRUE]]
    /\ pc' = [pc EXCEPT ![t] = "running"]
    /\ lock' = NoJob

\* Lines 250-265 of pick: choose, decrement, return, unlock.
Select(t) ==
  \E order \in Perms(mirrors), r \in 0..(Cardinality(mirrors) - 1) :
    LET found == FindLoop(order, PickJ(mirrors, availableJobs, r), 1, availableJobs) IN
    /\ found # NoAddr
    /\ availableJobs' = [availableJobs EXCEPT ![found] = @ - 1]
    /\ held' = [held EXCEPT ![t] = [addr |-> found, inMap |-> TRUE]]
    /\ pc' = [pc EXCEPT ![t] = "running"]
    /\ lock' = NoJob

\* The first lines of tryConnect: wanted, and the range loop's start.
TryConnectBegin(t, w) ==
  LET wanted == wantedMaxJobs - PoolMaxJobs(mirrors, maxJobs) IN
  /\ tcWanted' = IF wanted <= 0 THEN 0 ELSE wanted
  /\ tcTodo' = IF wanted <= 0 THEN {} ELSE w
  /\ tcBlack' = {}
  /\ pc' = [pc EXCEPT ![t] = IF wanted <= 0 THEN "select" ELSE "connect"]

\* A request is taken by the first job thread that is free.
FirstIdle(t) == pc[t] = "idle" /\ \A u \in Jobs : u < t => pc[u] # "idle"

\* pick with availableJobs() > 0 at entry: no network call is made.
PickFast(t) ==
  /\ FirstIdle(t)
  /\ lock = NoJob
  /\ PoolAvailableJobs(mirrors, availableJobs) > 0
  /\ Select(t)
  /\ UNCHANGED <<workers, mirrors, sinceAction, maxJobs, pendingChanges,
                 tcTodo, tcBlack, tcWanted, tcAddr>>
  /\ UNCHANGED waiterVars
  /\ UNCHANGED extVars

\* pick with availableJobs() <= 0 at entry: takes the lock and either starts
\* fetchWorkers (no known workers) or enters tryConnect.
PickSlow(t) ==
  /\ FirstIdle(t)
  /\ lock = NoJob
  /\ PoolAvailableJobs(mirrors, availableJobs) <= 0
  /\ lock' = t
  /\ IF workers = {}
     THEN /\ pc' = [pc EXCEPT ![t] = "fetch"]
          /\ UNCHANGED <<tcTodo, tcBlack, tcWanted>>
     ELSE TryConnectBegin(t, workers)
  /\ UNCHANGED <<workers, mirrors, sinceAction, connVars, held, tcAddr>>
  /\ UNCHANGED waiterVars
  /\ UNCHANGED extVars

\* me.workers = me.fetchWorkers() returns (line 238), tryConnect starts.
PickFetch(t) ==
  /\ pc[t] = "fetch"
  /\ \E nw \in FetchWorkers :
       /\ workers' = nw
       /\ TryConnectBegin(t, nw)
  /\ UNCHANGED <<mirrors, sinceAction, lock, connVars, held, tcAddr>>
  /\ UNCHANGED waiterVars
  /\ UNCHANGED extVars

\* One iteration of tryConnect's range loop up to the createMirror call.
TryConnectNext(t) ==
  /\ pc[t] = "connect"
  /\ \E addr \in tcTodo :
       /\ tcTodo' = tcTodo \ {addr}
       /\ IF addr \in mirrors
          THEN UNCHANGED <<pc, tcAddr>>
          ELSE /\ pc' = [pc EXCEPT ![t] = "creating"]
               /\ tcAddr' = addr
  /\ UNCHANGED <<poolVars, connVars, held, tcBlack, tcWanted>>
  /\ UNCHANGED waiterVars
  /\ UNCHANGED extVars

\* tryConnect without the break after a successful createMirror.
TryConnectCreateNoBreak(t) ==
  /\ pc[t] = "creating"
  /\ \E r \in CreateMirror(tcAddr, tcWanted) :
       IF r.ok
       THEN /\ maxJobs' = [maxJobs EXCEPT ![tcAddr] = r.jobs]
            /\ tcOpened' = tcOpened + 1
            /\ availableJobs' = [availableJobs EXCEPT ![tcAddr] = r.jobs]
            /\ mirrors' = mirrors \cup {tcAddr}
            /\ UNCHANGED <<tcTodo, tcBlack>>
       ELSE /\ tcBlack' = tcBlack \cup {tcAddr}
            /\ UNCHANGED <<maxJobs, availableJobs, mirrors, tcTodo, tcOpened>>
  /\ pc' = [pc EXCEPT ![t] = "connect"]
  /\ tcAddr' = NoAddr
  /\ UNCHANGED <<workers, sinceAction, lock, pendingChanges, held, tcWanted>>
  /\ UNCHANGED waiterVars
  /\ reaped' = (reaped /\ mirrors' = mirrors)
  /\ UNCHANGED <<sendVars, dropped, storeVars, replayVars, attrVars, blobVars, shipVars>>

\* createMirror returns: blacklist and continue, or install the mirror and break.
TryConnectCreate(t) ==
  /\ pc[t] = "creating"
  /\ \E r \in CreateMirror(tcAddr, tcWanted) :
       IF r.ok
       THEN /\ maxJobs' = [maxJobs EXCEPT ![tcAddr] = r.jobs]
            /\ tcOpened' = tcOpened + 1
            /\ availableJobs' = [availableJobs EXCEPT ![tcAddr] = r.jobs]
            /\ mirrors' = mirrors \cup {tcAddr}
            /\ tcTodo' = {}
            /\ UNCHANGED tcBlack
       ELSE /\ tcBlack' = tcBlack \cup {tcAddr}
            /\ UNCHANGED <<maxJobs, availableJobs, mirrors, tcTodo, tcOpened>>
  /\ pc' = [pc EXCEPT ![t] = "connect"]
  /\ tcAddr' = NoAddr
  /\ UNCHANGED <<workers, sinceAction, lock, pendingChanges, held, tcWanted>>
  /\ UNCHANGED waiterVars
  /\ reaped' = (reaped /\ mirrors' = mirrors)
  /\ UNCHANGED <<sendVars, dropped, storeVars, replayVars, attrVars, blobVars, shipVars>>

\* The loop of tryConnect is over: the blacklisted addresses leave me.workers.
TryConnectEnd(t) ==
  /\ pc[t] = "connect"
  /\ tcTodo = {}
  /\ workers' = workers \ tcBlack
  /\ tcBlack' = {}
  /\ tcWanted' = 0
  /\ pc' = [pc EXCEPT ![t] = "select"]
  /\ UNCHANGED <<mirrors, sinceAction, lock, connVars, held, tcTodo, tcAddr>>
  /\ UNCHANGED waiterVars
  /\ tcOpened' = 0
  /\ UNCHANGED <<sendVars, dropped, reaped, storeVars, replayVars, attrVars, blobVars, shipVars>>

\* pick after tryConnect, giving up whenever no slot is free.
PickFinishNoOversubscribe(t) ==
  /\ pc[t] = "select"
  /\ IF PoolAvailableJobs(mirrors, availableJobs) = 0
     THEN /\ pc' = [pc EXCEPT ![t] = "noworkers"]
          /\ lock' = NoJob
          /\ UNCHANGED <<availableJobs, held>>
     ELSE Select(t)
  /\ UNCHANGED <<workers, mirrors, sinceAction, maxJobs, pendingChanges,
                 tcTodo, tcBlack, tcWanted, tcAddr>>
  /\ UNCHANGED waiterVars
  /\ UNCHANGED extVars

\* pick after tryConnect: "No workers found at all." or the selection.
PickFinish(t) ==
  /\ pc[t] = "select"
  /\ IF PoolMaxJobs(mirrors, maxJobs) = 0
     THEN /\ pc' = [pc EXCEPT ![t] = "noworkers"]
          /\ lock' = NoJob
          /\ UNCHANGED <<availableJobs, held>>
     ELSE Select(t)
  /\ UNCHANGED <<workers, mirrors, sinceAction, maxJobs, pendingChanges,
                 tcTodo, tcBlack, tcWanted, tcAddr>>
  /\ UNCHANGED waiterVars
  /\ UNCHANGED extVars

\* ------------------------------------------------- pool: jobDone and drop
\* jobDone(mc); the job thread then lets go of mc.
JobDone(t) ==
  /\ pc[t] = "running"
  /\ lock = NoJob
  /\ sinceAction' = 0
  /\ pc' = [pc EXCEPT ![t] = "idle"]
  /\ held' = [held EXCEPT ![t] = NoConn]
  /\ availableJobs' = IF held[t].inMap
                      THEN [availableJobs EXCEPT ![held[t].addr] = @ + 1]
                      ELSE availableJobs
  /\ UNCHANGED <<workers, mirrors, lock, maxJobs, pendingChanges,
                 tcTodo, tcBlack, tcWanted, tcAddr>>
  /\ UNCHANGED waiterVars
  /\ dropped' = [dropped EXCEPT ![t] = FALSE]
  /\ UNCHANGED <<sendVars, reaped, tcOpened, storeVars, replayVars, attrVars, blobVars, shipVars>>

\* drop(mc, err), called by a job thread for the mirror it was given.
Drop(t) ==
  /\ pc[t] = "running"
  /\ lock = NoJob
  /\ mirrors' = mirrors \ {held[t].addr}
  /\ workers' = workers \ {held[t].addr}
  /\ held' = Unmap(held, {held[t].addr})
  /\ availableJobs' = Scrub(availableJobs, mirrors', 0)
  /\ maxJobs' = Scrub(maxJobs, mirrors', 0)
  /\ pendingChanges' = Scrub(pendingChanges, mirrors', <<>>)
  /\ UNCHANGED <<sinceAction, lock, pc, tcTodo, tcBlack, tcWanted, tcAddr>>
  /\ UNCHANGED waiterVars
  /\ dropped' = [u \in Jobs |-> dropped[u] \/ u = t \/ (held[t].inMap /\ held[u] = held[t])]
  /\ UNCHANGED <<sendVars, reaped, tcOpened, storeVars, replayVars, attrVars, blobVars, shipVars>>

\* pick's caller takes the "no workers" error and ends the request.
Release(t) ==
  /\ pc[t] = "noworkers"
  /\ pc' = [pc EXCEPT ![t] = "idle"]
  /\ UNCHANGED <<poolVars, connVars, held, tcTodo, tcBlack, tcWanted, tcAddr>>
  /\ UNCHANGED waiterVars
  /\ UNCHANGED extVars

\* ------------------------------------------------------ pool: housekeeping
\* refreshWorkers that adds the fetched addresses to the map it has.
RefreshWorkersMerge ==
  /\ \E nw \in FetchWorkers :
       IF nw # {}
       THEN /\ lock = NoJob
            /\ workers' = workers \cup nw
       ELSE UNCHANGED workers
  /\ UNCHANGED <<mirrors, sinceAction, lock, connVars, jobVars>>
  /\ UNCHANGED waiterVars
  /\ UNCHANGED extVars

\* refreshWorkers, called by periodicHouseholding before its loop and at the
\* top of every round: a non-empty answer of the coordinator replaces me.workers.
\* A round whose coordinator call fails changes nothing, so the rounds of the
\* loop show up as refreshWorkers and maybeDropConnections in any order.
RefreshWorkers ==
  /\ \E nw \in FetchWorkers :
       IF nw # {}
       THEN /\ lock = NoJob
            /\ workers' = nw
       ELSE UNCHANGED workers
  /\ UNCHANGED <<mirrors, sinceAction, lock, connVars, jobVars>>
  /\ UNCHANGED waiterVars
  /\ UNCHANGED extVars

\* maybeDropConnections without the keep-alive test.
MaybeDropConnectionsNoKeepAlive ==
  /\ lock = NoJob
  /\ IF \/ mirrors = {}
        \/ PoolAvailableJobs(mirrors, availableJobs) < PoolMaxJobs(mirrors, maxJobs)
     THEN UNCHANGED <<mirrors, connVars, held>>
     ELSE /\ mirrors' = {}
          /\ held' = Unmap(held, mirrors)
          /\ availableJobs' = Scrub(availableJobs, {}, 0)
          /\ maxJobs' = Scrub(maxJobs, {}, 0)
          /\ pendingChanges' = Scrub(pendingChanges, {}, <<>>)
  /\ UNCHANGED <<workers, sinceAction, lock, pc, tcTodo, tcBlack, tcWanted, tcAddr>>
  /\ UNCHANGED waiterVars
  /\ reaped' = (reaped \/ mirrors' # mirrors)
  /\ UNCHANGED <<sendVars, dropped, tcOpened, storeVars, replayVars, attrVars, blobVars, shipVars>>

\* maybeDropConnections, with dropConnections when all three tests pass.
MaybeDropConnections ==
  /\ lock = NoJob
  /\ IF \/ mirrors = {}
        \/ PoolAvailableJobs(mirrors, availableJobs) < PoolMaxJobs(mirrors, maxJobs)
        \/ sinceAction < keepAliveNs
     THEN UNCHANGED <<mirrors, connVars, held>>
     ELSE /\ mirrors' = {}
          /\ held' = Unmap(held, mirrors)
          /\ availableJobs' = Scrub(availableJobs, {}, 0)
          /\ maxJobs' = Scrub(maxJobs, {}, 0)
          /\ pendingChanges' = Scrub(pendingChanges, {}, <<>>)
  /\ UNCHANGED <<workers, sinceAction, lock, pc, tcTodo, tcBlack, tcWanted, tcAddr>>
  /\ UNCHANGED waiterVars
  /\ reaped' = (reaped \/ mirrors' # mirrors)
  /\ UNCHANGED <<sendVars, dropped, tcOpened, storeVars, replayVars, attrVars, blobVars, shipVars>>

\* The clock advances by one unit; past keepAliveNs the distance to
\* lastActionNs no longer matters to any test the program makes.
Tick ==
  /\ sinceAction < keepAliveNs
  /\ sinceAction' = sinceAction + 1
  /\ UNCHANGED <<workers, mirrors, lock, connVars, jobVars>>
  /\ UNCHANGED waiterVars
  /\ UNCHANGED extVars

\* ------------------------------------------- mirror: the pending-change queue
\* mirrorConnection.queueFiles
ConnQueueFiles(q, fset) == q \o fset

\* queueFiles without the test origin != w.
PoolQueueFilesAll(pend, m, origin, fset) ==
  [a \in Addrs |-> IF a \in m THEN ConnQueueFiles(pend[a], fset) ELSE pend[a]]

\* mirrorConnections.queueFiles(origin, fset)
PoolQueueFiles(pend, m, origin, fset) ==
  [a \in Addrs |-> IF a \in m /\ ~(origin.inMap /\ origin.addr = a)
                   THEN ConnQueueFiles(pend[a], fset) ELSE pend[a]]

\* A job that got a FileSet back from its mirror queues it for the others.
QueueFiles(t) ==
  /\ pc[t] = "running"
  /\ \E fset \in FileSets :
       /\ \A a \in mirrors : Len(pendingChanges[a]) + Len(fset) <= MaxPending
       /\ pendingChanges' = PoolQueueFiles(pendingChanges, mirrors, held[t], fset)
  /\ UNCHANGED <<poolVars, maxJobs, availableJobs, jobVars>>
  /\ UNCHANGED waiterVars
  /\ UNCHANGED extVars

\* mirrorConnection.sendFiles with a non-empty queue: one Mirror.Update RPC.
SendFiles(t) ==
  /\ pc[t] = "running"
  /\ held[t].inMap
  /\ pendingChanges[held[t].addr] # <<>>
  /\ \E ok \in BOOLEAN :
       pendingChanges' = IF ok THEN [pendingChanges EXCEPT ![held[t].addr] = <<>>]
                         ELSE pendingChanges
  /\ UNCHANGED <<poolVars, maxJobs, availableJobs, jobVars>>
  /\ UNCHANGED waiterVars
  /\ UNCHANGED extVars

Next ==
  \/ \E t \in Jobs : PickFast(t)
  \/ \E t \in Jobs : PickSlow(t)
  \/ \E t \in Jobs : PickFetch(t)
  \/ \E t \in Jobs : TryConnectNext(t)
  \/ \E t \in Jobs : TryConnectCreate(t)
  \/ \E t \in Jobs : TryConnectEnd(t)
  \/ \E t \in Jobs : PickFinish(t)
  \/ \E t \in Jobs : JobDone(t)
  \/ \E t \in Jobs : Drop(t)
  \/ \E t \in Jobs : Release(t)
  \/ RefreshWorkers
  \/ MaybeDropConnections
  \/ Tick

Spec == Init /\ [][Next]_vars

\* The pool with the pending-change queues: picks, completions, and the queueing
\* and shipping of FileSets; no clock, no housekeeping, and mirrors only enter
\* the map (they leave it in Spec).
NextQueue ==
  \/ \E t \in Jobs : PickFast(t)
  \/ \E t \in Jobs : PickSlow(t)
  \/ \E t \in Jobs : PickFetch(t)
  \/ \E t \in Jobs : TryConnectNext(t)
  \/ \E t \in Jobs : TryConnectCreate(t)
  \/ \E t \in Jobs : TryConnectEnd(t)
  \/ \E t \in Jobs : PickFinish(t)
  \/ \E t \in Jobs : JobDone(t)
  \/ \E t \in Jobs : Release(t)
  \/ \E t \in Jobs : QueueFiles(t)
  \/ \E t \in Jobs : SendFiles(t)

SpecQueue == Init /\ [][NextQueue]_vars

\* ------------------------------------------------ waiter: jobs on one mirror
\* The pool as the waiter's jobs find it: every worker carries a mirror, the
\* mirror under address 1 granted all the capacity, and every job thread has
\* been given that mirror by pick.
InitWaiter ==
  /\ WaiterInit
  /\ ExtInit
  /\ workers = Addrs
  /\ mirrors = Addrs
  /\ sinceAction = 0
  /\ lock = NoJob
  /\ maxJobs = [a \in Addrs |-> IF a = 1 THEN wantedMaxJobs ELSE 0]
  /\ availableJobs = [a \in Addrs |-> IF a = 1 THEN wantedMaxJobs - NJobs ELSE 0]
  /\ pendingChanges = [a \in Addrs |-> <<>>]
  /\ pc = [t \in Jobs |-> "running"]
  /\ held = [t \in Jobs |-> [addr |-> 1, inMap |-> TRUE]]
  /\ tcTodo = {}
  /\ tcBlack = {}
  /\ tcWanted = 0
  /\ tcAddr = NoAddr

\* The master process is running: no goroutine has panicked.
Alive == panicked = ""

\* The entry of the range loops for the channels of jobs that have returned.
LeakedCh == 0

\* rep.FileSet.Files of the response that carries FileSetId i.
FilesOf(i) == [k \in 1..(1 + (i % NFiles)) |-> k]

\* The entries queued for the FileSetIds ids, in that order.
RECURSIVE Flatten(_)
Flatten(ids) == IF ids = <<>> THEN <<>> ELSE FilesOf(Head(ids)) \o Flatten(Tail(ids))

\* The elements of a sequence.
Range(q) == {q[k] : k \in 1..Len(q)}

\* getChannel(): a fresh buffered channel is registered for the job.
GetChannel(t) ==
  /\ Alive
  /\ wpc[t] = "none"
  /\ wlock = NoJob
  /\ channels' = channels \cup {t}
  /\ wpc' = [wpc EXCEPT ![t] = "registered"]
  /\ UNCHANGED <<leaked, buf, chClosed, wlock, bTodo, rep, werr, panicked, nextId, histVars>>
  /\ UNCHANGED <<poolVars, connVars, jobVars>>
  /\ UNCHANGED extVars

\* The worker's WorkResponse arrives and the job calls wait(rep, completion):
\* a response with a FileSet carries the next FileSetId, a response without
\* one names a FileSetId that has been handed out. The run hands out the
\* FileSetIds up to last.
RespondUpTo(t, last) ==
  /\ Alive
  /\ wpc[t] = "registered"
  /\ \/ /\ nextId <= last
        /\ rep' = [rep EXCEPT ![t] = [id |-> nextId, nil |-> FALSE]]
        /\ nextId' = nextId + 1
        /\ wpc' = [wpc EXCEPT ![t] = "replay"]
     \/ /\ \E i \in 1..(nextId - 1) : rep' = [rep EXCEPT ![t] = [id |-> i, nil |-> TRUE]]
        /\ wpc' = [wpc EXCEPT ![t] = "recv"]
        /\ UNCHANGED nextId
  /\ UNCHANGED <<chanVars, werr, panicked, histVars>>
  /\ UNCHANGED <<poolVars, connVars, jobVars>>
  /\ UNCHANGED extVars

Respond(t) == RespondUpTo(t, MaxId)

\* wait, line 56: replayFileModifications returns nil or an error.
Replay(t) ==
  /\ Alive
  /\ wpc[t] = "replay"
  /\ \/ /\ replayed' = replayed \cup {rep[t].id}
        /\ wpc' = [wpc EXCEPT ![t] = "update"]
        /\ UNCHANGED werr
     \/ /\ werr' = [werr EXCEPT ![t] = "replay"]
        /\ wpc' = [wpc EXCEPT ![t] = "flush"]
        /\ UNCHANGED replayed
  /\ UNCHANGED <<chanVars, rep, panicked, nextId>>
  /\ UNCHANGED <<rcvd, bcastOrder, ended, regd, flushed, updated, queued>>
  /\ UNCHANGED <<poolVars, connVars, jobVars>>
  /\ UNCHANGED extVars

\* The producing path with the broadcast right after updateFiles.
UpdateFilesThenBroadcast(t) ==
  /\ Alive
  /\ wpc[t] = "update"
  /\ updated' = updated \cup {rep[t].id}
  /\ wpc' = [wpc EXCEPT ![t] = "bcast"]
  /\ UNCHANGED <<chanVars, rep, werr, panicked, nextId>>
  /\ UNCHANGED <<rcvd, bcastOrder, ended, regd, flushed, replayed, queued>>
  /\ UNCHANGED <<poolVars, connVars, jobVars>>
  /\ UNCHANGED extVars

\* wait, line 58: fileServer.updateFiles.
UpdateFiles(t) ==
  /\ Alive
  /\ wpc[t] = "update"
  /\ updated' = updated \cup {rep[t].id}
  /\ wpc' = [wpc EXCEPT ![t] = "queue"]
  /\ UNCHANGED <<chanVars, rep, werr, panicked, nextId>>
  /\ UNCHANGED <<rcvd, bcastOrder, ended, regd, flushed, replayed, queued>>
  /\ UNCHANGED <<poolVars, connVars, jobVars>>
  /\ UNCHANGED extVars

\* wait, line 59: mirrors.queueFiles(me.mirror, rep.FileSet.Files).
WaitQueueFiles(t) ==
  /\ Alive
  /\ wpc[t] = "queue"
  /\ pendingChanges' = PoolQueueFiles(pendingChanges, mirrors, held[t], FilesOf(rep[t].id))
  /\ queued' = Append(queued, rep[t].id)
  /\ wpc' = [wpc EXCEPT ![t] = "bcast"]
  /\ UNCHANGED <<chanVars, rep, werr, panicked, nextId>>
  /\ UNCHANGED <<rcvd, bcastOrder, ended, regd, flushed, replayed, updated>>
  /\ UNCHANGED <<poolVars, maxJobs, availableJobs, jobVars>>
  /\ UNCHANGED extVars

\* A channel send that puts the value in front of the buffered ones.
ChanSendFront(q, v) == <<v>> \o q

\* ch <- v on a channel with room in its buffer.
ChanSend(q, v) == Append(q, v)

\* broadcast takes the waiter lock and starts its range loop; the test
\* ch != ignore leaves the producer's own channel out.
BroadcastBegin(t) ==
  /\ Alive
  /\ wpc[t] = "bcast"
  /\ wlock = NoJob
  /\ wlock' = t
  /\ bTodo' = (channels \ {t}) \cup (IF leaked THEN {LeakedCh} ELSE {})
  /\ bcastOrder' = Append(bcastOrder, rep[t].id)
  /\ regd' = [regd EXCEPT ![rep[t].id] = channels \ {t}]
  /\ wpc' = [wpc EXCEPT ![t] = "sending"]
  /\ UNCHANGED <<channels, leaked, buf, chClosed, rep, werr, panicked, nextId>>
  /\ UNCHANGED <<rcvd, ended, flushed, replayed, updated, queued>>
  /\ UNCHANGED <<poolVars, connVars, jobVars>>
  /\ UNCHANGED extVars

\* One iteration of broadcast's range loop: ch <- id. A send on a closed
\* channel panics; a send on a channel whose buffer is full does not return.
BroadcastSend(t) ==
  /\ Alive
  /\ wpc[t] = "sending"
  /\ \E ch \in bTodo :
       IF ch = LeakedCh \/ chClosed[ch]
       THEN /\ panicked' = "send on closed channel"
            /\ ended' = ended \cup {rep[t].id}
            /\ UNCHANGED <<buf, bTodo>>
       ELSE /\ Len(buf[ch]) < chanCap
            /\ buf' = [buf EXCEPT ![ch] = ChanSend(@, rep[t].id)]
            /\ bTodo' = bTodo \ {ch}
            /\ UNCHANGED <<panicked, ended>>
  /\ UNCHANGED <<channels, leaked, chClosed, wlock, wpc, rep, werr, nextId>>
  /\ UNCHANGED <<rcvd, bcastOrder, regd, flushed, replayed, updated, queued>>
  /\ UNCHANGED <<poolVars, connVars, jobVars>>
  /\ UNCHANGED extVars

\* broadcast's loop is over: the deferred Unlock runs.
BroadcastEnd(t) ==
  /\ Alive
  /\ wpc[t] = "sending"
  /\ bTodo = {}
  /\ wlock' = NoJob
  /\ ended' = ended \cup {rep[t].id}
  /\ wpc' = [wpc EXCEPT ![t] = "unreg"]
  /\ UNCHANGED <<channels, leaked, buf, chClosed, bTodo, rep, werr, panicked, nextId>>
  /\ UNCHANGED <<rcvd, bcastOrder, regd, flushed, replayed, updated, queued>>
  /\ UNCHANGED <<poolVars, connVars, jobVars>>
  /\ UNCHANGED extVars

\* flush(): close(ch) for every registered channel, under the lock. Closing a
\* closed channel panics; the range loop may have closed any of the open ones
\* before it gets there.
Flush(t) ==
  /\ Alive
  /\ wpc[t] = "flush"
  /\ wlock = NoJob
  /\ flushed' = flushed \cup channels
  /\ IF leaked \/ \E ch \in channels : chClosed[ch]
     THEN /\ \E S \in SUBSET {ch \in channels : ~chClosed[ch]} :
               chClosed' = [ch \in Jobs |-> chClosed[ch] \/ ch \in S]
          /\ panicked' = "close of closed channel"
          /\ UNCHANGED wpc
     ELSE /\ chClosed' = [ch \in Jobs |-> chClosed[ch] \/ ch \in channels]
          /\ wpc' = [wpc EXCEPT ![t] = "unreg"]
          /\ UNCHANGED panicked
  /\ UNCHANGED <<channels, leaked, buf, wlock, bTodo, rep, werr, nextId>>
  /\ UNCHANGED <<rcvd, bcastOrder, ended, regd, replayed, updated, queued>>
  /\ UNCHANGED <<poolVars, connVars, jobVars>>
  /\ UNCHANGED extVars

\* The observer loop ending at the first value it receives.
RecvAnyValue(t) ==
  /\ Alive
  /\ wpc[t] = "recv"
  /\ IF buf[t] # <<>>
     THEN /\ buf' = [buf EXCEPT ![t] = Tail(@)]
          /\ rcvd' = [rcvd EXCEPT ![t] = Append(@, Head(buf[t]))]
          /\ wpc' = [wpc EXCEPT ![t] = "unreg"]
          /\ UNCHANGED werr
     ELSE /\ chClosed[t]
          /\ werr' = [werr EXCEPT ![t] = "files were never sent."]
          /\ wpc' = [wpc EXCEPT ![t] = "returned"]
          /\ UNCHANGED <<buf, rcvd>>
  /\ UNCHANGED <<channels, leaked, chClosed, wlock, bTodo, rep, panicked, nextId>>
  /\ UNCHANGED <<bcastOrder, ended, regd, flushed, replayed, updated, queued>>
  /\ UNCHANGED <<poolVars, connVars, jobVars>>
  /\ UNCHANGED extVars

\* wait, lines 65-73: one receive of the observer loop. A buffered value is
\* received even from a closed channel; !ok returns at line 68.
Recv(t) ==
  /\ Alive
  /\ wpc[t] = "recv"
  /\ IF buf[t] # <<>>
     THEN /\ buf' = [buf EXCEPT ![t] = Tail(@)]
          /\ rcvd' = [rcvd EXCEPT ![t] = Append(@, Head(buf[t]))]
          /\ wpc' = [wpc EXCEPT ![t] = IF Head(buf[t]) = rep[t].id THEN "unreg" ELSE "recv"]
          /\ UNCHANGED werr
     ELSE /\ chClosed[t]
          /\ werr' = [werr EXCEPT ![t] = "files were never sent."]
          /\ wpc' = [wpc EXCEPT ![t] = "returned"]
          /\ UNCHANGED <<buf, rcvd>>
  /\ UNCHANGED <<channels, leaked, chClosed, wlock, bTodo, rep, panicked, nextId>>
  /\ UNCHANGED <<bcastOrder, ended, regd, flushed, replayed, updated, queued>>
  /\ UNCHANGED <<poolVars, connVars, jobVars>>
  /\ UNCHANGED extVars

\* wait, lines 76-79: the channel leaves me.channels and wait returns err.
Unregister(t) ==
  /\ Alive
  /\ wpc[t] = "unreg"
  /\ wlock = NoJob
  /\ channels' = channels \ {t}
  /\ wpc' = [wpc EXCEPT ![t] = "returned"]
  /\ UNCHANGED <<leaked, buf, chClosed, wlock, bTodo, rep, werr, panicked, nextId, histVars>>
  /\ UNCHANGED <<poolVars, connVars, jobVars>>
  /\ UNCHANGED extVars

\* The job is over and its thread takes the next request, which pick places on
\* the same mirror. The thread's old channel is out of its reach; if it is
\* still registered, it stays in me.channels for good, and in the range of a
\* broadcast that has not visited it yet.
NextJob(t) ==
  /\ Alive
  /\ wpc[t] = "returned"
  /\ wpc' = [wpc EXCEPT ![t] = "none"]
  /\ leaked' = (leaked \/ t \in channels)
  /\ channels' = channels \ {t}
  /\ buf' = [buf EXCEPT ![t] = <<>>]
  /\ chClosed' = [chClosed EXCEPT ![t] = FALSE]
  /\ rep' = [rep EXCEPT ![t] = NoRep]
  /\ werr' = [werr EXCEPT ![t] = ""]
  /\ rcvd' = [rcvd EXCEPT ![t] = <<>>]
  /\ regd' = [i \in Ids |-> regd[i] \ {t}]
  /\ flushed' = flushed \ {t}
  /\ bTodo' = IF t \in bTodo THEN (bTodo \ {t}) \cup {LeakedCh} ELSE bTodo
  /\ UNCHANGED <<wlock, panicked, nextId>>
  /\ UNCHANGED <<bcastOrder, ended, replayed, updated, queued>>
  /\ UNCHANGED <<poolVars, connVars, jobVars>>
  /\ UNCHANGED extVars

NextWaiter ==
  \/ \E t \in Jobs : GetChannel(t)
  \/ \E t \in Jobs : Respond(t)
  \/ \E t \in Jobs : Replay(t)
  \/ \E t \in Jobs : UpdateFiles(t)
  \/ \E t \in Jobs : WaitQueueFiles(t)
  \/ \E t \in Jobs : BroadcastBegin(t)
  \/ \E t \in Jobs : BroadcastSend(t)
  \/ \E t \in Jobs : BroadcastEnd(t)
  \/ \E t \in Jobs : Flush(t)
  \/ \E t \in Jobs : Recv(t)
  \/ \E t \in Jobs : Unregister(t)
  \/ \E t \in Jobs : NextJob(t)

SpecWaiter == InitWaiter /\ [][NextWaiter]_vars

\* The waiter over a run long enough for a channel to fill: the jobs of
\* NextWaiter, with the FileSetIds up to LastId.
RespondLong(t) == RespondUpTo(t, LastId)

NextWaiterLong ==
  \/ \E t \in Jobs : GetChannel(t)
  \/ \E t \in Jobs : RespondLong(t)
  \/ \E t \in Jobs : Replay(t)
  \/ \E t \in Jobs : UpdateFiles(t)
  \/ \E t \in Jobs : WaitQueueFiles(t)
  \/ \E t \in Jobs : BroadcastBegin(t)
  \/ \E t \in Jobs : BroadcastSend(t)
  \/ \E t \in Jobs : BroadcastEnd(t)
  \/ \E t \in Jobs : Flush(t)
  \/ \E t \in Jobs : Recv(t)
  \/ \E t \in Jobs : Unregister(t)
  \/ \E t \in Jobs : NextJob(t)

\* The scheduler runs every goroutine that can take a step: the worker answers,
\* the calls of wait return, a receive with a value or a closed channel
\* completes, a send with room in the buffer completes, and a goroutine that
\* finds the waiter's mutex free again and again gets it.
WaiterFair ==
  \A t \in Jobs :
    /\ WF_vars(RespondLong(t))
    /\ WF_vars(Replay(t))
    /\ WF_vars(UpdateFiles(t))
    /\ WF_vars(WaitQueueFiles(t))
    /\ SF_vars(BroadcastBegin(t))
    /\ WF_vars(BroadcastSend(t))
    /\ WF_vars(BroadcastEnd(t))
    /\ SF_vars(Flush(t))
    /\ WF_vars(Recv(t))
    /\ SF_vars(Unregister(t))

SpecWaiterLong == InitWaiter /\ [][NextWaiterLong]_vars /\ WaiterFair

\* ------------------------------------------- mirror: a job's run on its mirror
\* The pool as the jobs of the run find it: every worker carries a mirror, the
\* mirror under address 1 granted all the capacity and is full, and the jobs
\* beyond its capacity were placed on the other mirrors.
RunMirror(t) ==
  IF t <= wantedMaxJobs THEN 1 ELSE 2 + ((t - wantedMaxJobs - 1) % (NAddrs - 1))

InitSend ==
  /\ WaiterInit
  /\ ExtInit
  /\ workers = Addrs
  /\ mirrors = Addrs
  /\ sinceAction = 0
  /\ lock = NoJob
  /\ maxJobs = [a \in Addrs |-> IF a = 1 THEN wantedMaxJobs ELSE 0]
  /\ availableJobs = [a \in Addrs |->
       maxJobs[a] - Cardinality({t \in Jobs : RunMirror(t) = a})]
  /\ pendingChanges = [a \in Addrs |-> <<>>]
  /\ pc = [t \in Jobs |-> "running"]
  /\ held = [t \in Jobs |-> [addr |-> RunMirror(t), inMap |-> TRUE]]
  /\ tcTodo = {}
  /\ tcBlack = {}
  /\ tcWanted = 0
  /\ tcAddr = NoAddr

\* sendFiles that empties the queue whatever the RPC returned.
SendFilesResultAlwaysClear(q, ok) ==
  IF q = <<>>
  THEN [calls |-> <<>>, queue |-> q, err |-> FALSE]
  ELSE [calls |-> <<q>>, queue |-> <<>>, err |-> ~ok]

\* mirrorConnection.sendFiles on the queue q when the Mirror.Update RPC, if one
\* is made, succeeds (ok) or fails: the requests made, the queue left, the error.
SendFilesResult(q, ok) ==
  IF q = <<>>
  THEN [calls |-> <<>>, queue |-> q, err |-> FALSE]
  ELSE IF ok
       THEN [calls |-> <<q>>, queue |-> <<>>, err |-> FALSE]
       ELSE [calls |-> <<q>>, queue |-> q, err |-> TRUE]

\* The job calls sendFiles on its mirror before its Run is sent; on an error
\* the job is over.
JobSendFiles(t) ==
  /\ jstep[t] = "send"
  /\ pc[t] = "running"
  /\ \E ok \in BOOLEAN :
       LET r == SendFilesResult(pendingChanges[held[t].addr], ok) IN
       /\ pendingChanges' = [pendingChanges EXCEPT ![held[t].addr] = r.queue]
       /\ lastCalls' = [lastCalls EXCEPT ![t] = r.calls]
       /\ sendErr' = [sendErr EXCEPT ![t] = r.err]
       /\ jstep' = [jstep EXCEPT ![t] = IF r.err THEN "done" ELSE "dispatch"]
  /\ UNCHANGED <<poolVars, maxJobs, availableJobs, jobVars, waiterVars, dropVars, storeVars, replayVars, attrVars, blobVars, shipVars>>

\* The job's Mirror.Run request goes to the worker.
Dispatch(t) ==
  /\ jstep[t] = "dispatch"
  /\ jstep' = [jstep EXCEPT ![t] = "run"]
  /\ UNCHANGED <<poolVars, connVars, jobVars, waiterVars, lastCalls, sendErr, dropVars, storeVars, replayVars, attrVars, blobVars, shipVars>>

\* The worker's response arrives; the files a job produced are queued for the
\* other mirrors (fileSetWaiter.wait, line 59).
RunReturns(t) ==
  /\ jstep[t] = "run"
  /\ jstep' = [jstep EXCEPT ![t] = "done"]
  /\ \/ UNCHANGED pendingChanges
     \/ \E fset \in FileSets :
          /\ \A a \in mirrors : Len(pendingChanges[a]) + Len(fset) <= MaxPending
          /\ pendingChanges' = PoolQueueFiles(pendingChanges, mirrors, held[t], fset)
  /\ UNCHANGED <<poolVars, maxJobs, availableJobs, jobVars, waiterVars, lastCalls, sendErr, dropVars, storeVars, replayVars, attrVars, blobVars, shipVars>>

\* The job is over and its thread takes the next request, which pick places on
\* the same mirror.
NextRequest(t) ==
  /\ jstep[t] = "done"
  /\ jstep' = [jstep EXCEPT ![t] = "send"]
  /\ lastCalls' = [lastCalls EXCEPT ![t] = <<>>]
  /\ sendErr' = [sendErr EXCEPT ![t] = FALSE]
  /\ UNCHANGED <<poolVars, connVars, jobVars, waiterVars, dropVars, storeVars, replayVars, attrVars, blobVars, shipVars>>

NextSend ==
  \/ \E t \in Jobs : JobSendFiles(t)
  \/ \E t \in Jobs : Dispatch(t)
  \/ \E t \in Jobs : RunReturns(t)
  \/ \E t \in Jobs : NextRequest(t)

SpecSend == InitSend /\ [][NextSend]_vars

\* The waiter's jobs on a mirror that a job may drop after an RPC error: the
\* registrations, the observers and the failing producers.
NextWaiterDrop ==
  \/ \E t \in Jobs : GetChannel(t)
  \/ \E t \in Jobs : Respond(t)
  \/ \E t \in Jobs : Replay(t)
  \/ \E t \in Jobs : Flush(t)
  \/ \E t \in Jobs : Recv(t)
  \/ \E t \in Jobs : Unregister(t)
  \/ \E t \in Jobs : NextJob(t)
  \/ \E t \in Jobs : Drop(t)

SpecWaiterDrop == InitWaiter /\ [][NextWaiterDrop]_vars

\* ------------------------------------------------------------- housekeeping
\* A housekeeping loop that runs its body once and then stops.
PeriodicHouseholdingOnce ==
  WF_vars(Tick)

\* periodicHouseholding: the loop sleeps periodNs and then calls
\* refreshWorkers and maybeDropConnections, forever; time keeps advancing.
PeriodicHouseholding ==
  /\ WF_vars(Tick)
  /\ WF_vars(MaybeDropConnections)

\* The pool whose jobs all end with jobDone (no job reports a failed mirror),
\* with the housekeeping loop scheduled fairly.
NextReap ==
  \/ \E t \in Jobs : PickFast(t)
  \/ \E t \in Jobs : PickSlow(t)
  \/ \E t \in Jobs : PickFetch(t)
  \/ \E t \in Jobs : TryConnectNext(t)
  \/ \E t \in Jobs : TryConnectCreate(t)
  \/ \E t \in Jobs : TryConnectEnd(t)
  \/ \E t \in Jobs : PickFinish(t)
  \/ \E t \in Jobs : JobDone(t)
  \/ \E t \in Jobs : Release(t)
  \/ RefreshWorkers
  \/ MaybeDropConnections
  \/ Tick

SpecReap == Init /\ [][NextReap]_vars /\ PeriodicHouseholding

\* ------------------------------------------------------- content store: steps
\* NewContentCache on a directory holding any set of blobs: have is read
\* from the directory by ReadHexDatabase.
InitStore ==
  /\ WaiterInit
  /\ jstep = [t \in Jobs |-> "send"]
  /\ lastCalls = [t \in Jobs |-> <<>>]
  /\ sendErr = [t \in Jobs |-> FALSE]
  /\ dropped = [t \in Jobs |-> FALSE]
  /\ reaped = FALSE
  /\ tcOpened = 0
  /\ workers = {}
  /\ mirrors = {}
  /\ sinceAction = keepAliveNs
  /\ lock = NoJob
  /\ maxJobs = [a \in Addrs |-> 0]
  /\ availableJobs = [a \in Addrs |-> 0]
  /\ pendingChanges = [a \in Addrs |-> <<>>]
  /\ pc = [t \in Jobs |-> "idle"]
  /\ held = [t \in Jobs |-> NoConn]
  /\ tcTodo = {}
  /\ tcBlack = {}
  /\ tcWanted = 0
  /\ tcAddr = NoAddr
  /\ \E db \in SUBSET Hashes : StoreInit(db)
  /\ ReplayInit
  /\ AttrInit
  /\ BlobInit
  /\ ShipInit

\* The callers are interchangeable: the idle caller of lowest index stands for
\* any idle caller that starts an operation.
StoreFirstIdle(t) ==
  /\ spc[t] = "idle"
  /\ \A u \in Jobs : u < t => spc[u] # "idle"

\* HasHash: me.have[hash] read under the mutex.
HasHash(d) == d \in have

\* A caller leaves the store: back to idle with nothing in hand.
Leave(t) ==
  /\ spc' = [spc EXCEPT ![t] = "idle"]
  /\ sdig' = [sdig EXCEPT ![t] = NoHash]
  /\ smem' = [smem EXCEPT ![t] = FALSE]

Enter(t, d, mem, at) ==
  /\ spc' = [spc EXCEPT ![t] = at]
  /\ sdig' = [sdig EXCEPT ![t] = d]
  /\ smem' = [smem EXCEPT ![t] = mem]

\* Save, and SaveStream of a stream below _MEMORY_LIMIT (mem) or above it:
\* the caller has the content in hand and is about to write it out.
Save(t, d, mem) ==
  /\ ~fatal
  /\ StoreFirstIdle(t)
  /\ Enter(t, d, mem, "svWrite")
  /\ UNCHANGED <<have, onDisk, inMemoryCache, faulting, fatal, returned>>
  /\ UNCHANGED nonStoreVars

\* FetchFromServer: nothing to do when HasHash(hash); otherwise the chunks are
\* fetched and written out, through Save for one short chunk (mem).
FetchFromServer(t, d, mem) ==
  /\ ~fatal
  /\ StoreFirstIdle(t)
  /\ IF HasHash(d)
       THEN /\ returned' = returned \cup {d}
            /\ UNCHANGED <<spc, sdig, smem>>
       ELSE /\ Enter(t, d, mem, "svWrite")
            /\ UNCHANGED returned
  /\ UNCHANGED <<have, onDisk, inMemoryCache, faulting, fatal>>
  /\ UNCHANGED nonStoreVars

\* HashWriter.WriteClose / CopyClose / Write...Close: the temp file is written
\* and renamed to HashPath.  A failed fetch or write ends the call with an
\* error; a failed rename is log.Fatal.
SaveWrite(t) ==
  /\ ~fatal
  /\ spc[t] = "svWrite"
  /\ \E r \in {"ok", "err", "fatal"} :
       /\ onDisk' = IF r = "ok" THEN onDisk \cup {sdig[t]} ELSE onDisk
       /\ fatal' = (r = "fatal")
       /\ IF r = "ok"
            THEN /\ spc' = [spc EXCEPT ![t] = "svHave"]
                 /\ UNCHANGED <<sdig, smem>>
            ELSE Leave(t)
  /\ UNCHANGED <<have, inMemoryCache, faulting, returned>>
  /\ UNCHANGED nonStoreVars

\* A save path that returns the digest without have[hash] = true.
SaveHaveUnrecorded(t) ==
  /\ ~fatal
  /\ spc[t] = "svHave"
  /\ UNCHANGED have
  /\ inMemoryCache' = IF smem[t] THEN inMemoryCache \cup {sdig[t]} ELSE inMemoryCache
  /\ returned' = returned \cup {sdig[t]}
  /\ Leave(t)
  /\ UNCHANGED <<onDisk, faulting, fatal>>
  /\ UNCHANGED nonStoreVars

\* The tail of saveViaMemory, SaveStream and FetchFromServer: under the mutex
\* have[hash] = true (and the content goes to the LRU when it is in memory),
\* then the digest is returned.
SaveHave(t) ==
  /\ ~fatal
  /\ spc[t] = "svHave"
  /\ have' = have \cup {sdig[t]}
  /\ inMemoryCache' = IF smem[t] THEN inMemoryCache \cup {sdig[t]} ELSE inMemoryCache
  /\ returned' = returned \cup {sdig[t]}
  /\ Leave(t)
  /\ UNCHANGED <<onDisk, faulting, fatal>>
  /\ UNCHANGED nonStoreVars

\* DestructiveSavePath up to its HasHash test: a digest the store has is
\* returned at once (the source file is removed).
DestructiveSavePath(t, d, mem) ==
  /\ ~fatal
  /\ StoreFirstIdle(t)
  /\ IF HasHash(d)
       THEN /\ returned' = returned \cup {d}
            /\ UNCHANGED <<spc, sdig, smem>>
       ELSE /\ Enter(t, d, mem, "dspHave")
            /\ UNCHANGED returned
  /\ UNCHANGED <<have, onDisk, inMemoryCache, faulting, fatal>>
  /\ UNCHANGED nonStoreVars

\* DestructiveSavePath: me.have[s] = true under the mutex, before the rename.
DspHave(t) ==
  /\ ~fatal
  /\ spc[t] = "dspHave"
  /\ have' = have \cup {sdig[t]}
  /\ inMemoryCache' = IF smem[t] THEN inMemoryCache \cup {sdig[t]} ELSE inMemoryCache
  /\ spc' = [spc EXCEPT ![t] = "dspRename"]
  /\ UNCHANGED <<sdig, smem, onDisk, faulting, fatal, returned>>
  /\ UNCHANGED nonStoreVars

\* DestructiveSavePath: os.Rename(path, p) with the mutex released; log.Fatal
\* when it fails.
DspRename(t) ==
  /\ ~fatal
  /\ spc[t] = "dspRename"
  /\ \E ok \in BOOLEAN :
       /\ onDisk' = IF ok THEN onDisk \cup {sdig[t]} ELSE onDisk
       /\ returned' = IF ok THEN returned \cup {sdig[t]} ELSE returned
       /\ fatal' = ~ok
  /\ Leave(t)
  /\ UNCHANGED <<have, inMemoryCache, faulting>>
  /\ UNCHANGED nonStoreVars

\* FaultIn and ContentsIfLoaded are called: the caller goes for the mutex.
FaultIn(t, d) ==
  /\ ~fatal
  /\ StoreFirstIdle(t)
  /\ Enter(t, d, FALSE, "fiTest")
  /\ UNCHANGED <<have, onDisk, inMemoryCache, faulting, fatal, returned>>
  /\ UNCHANGED nonStoreVars

ContentsIfLoaded(t, d) ==
  /\ ~fatal
  /\ StoreFirstIdle(t)
  /\ Enter(t, d, FALSE, "cilTest")
  /\ UNCHANGED <<have, onDisk, inMemoryCache, faulting, fatal, returned>>
  /\ UNCHANGED nonStoreVars

\* FaultIn that starts its read whatever faulting[hash] says.
FaultInTestNoFlag(t) ==
  /\ ~fatal
  /\ spc[t] = "fiTest"
  /\ IF sdig[t] \in inMemoryCache
       THEN /\ Leave(t)
            /\ UNCHANGED faulting
       ELSE /\ faulting' = faulting \cup {sdig[t]}
            /\ spc' = [spc EXCEPT ![t] = "fiRead"]
            /\ UNCHANGED <<sdig, smem>>
  /\ UNCHANGED <<have, onDisk, inMemoryCache, fatal, returned>>
  /\ UNCHANGED nonStoreVars

\* FaultIn with the mutex: the loop test (cond.Wait when the digest is not in
\* the LRU and somebody is faulting it), the return when the LRU has it, or
\* faulting[hash] = true and the mutex released for the read.
FaultInTest(t) ==
  /\ ~fatal
  /\ spc[t] = "fiTest"
  /\ IF sdig[t] \notin inMemoryCache /\ sdig[t] \in faulting
       THEN /\ spc' = [spc EXCEPT ![t] = "fiWait"]
            /\ UNCHANGED <<sdig, smem, faulting>>
       ELSE IF sdig[t] \in inMemoryCache
         THEN /\ Leave(t)
              /\ UNCHANGED faulting
         ELSE /\ faulting' = faulting \cup {sdig[t]}
              /\ spc' = [spc EXCEPT ![t] = "fiRead"]
              /\ UNCHANGED <<sdig, smem>>
  /\ UNCHANGED <<have, onDisk, inMemoryCache, fatal, returned>>
  /\ UNCHANGED nonStoreVars

\* cond.Broadcast: every caller in cond.Wait goes back to its loop test.
Broadcast(p) ==
  [t \in Jobs |-> IF p[t] = "fiWait" THEN "fiTest"
                  ELSE IF p[t] = "cilWait" THEN "cilTest" ELSE p[t]]

\* A loader that deletes its flag and returns without cond.Broadcast.
FaultInReadNoBroadcast(t) ==
  /\ ~fatal
  /\ spc[t] = "fiRead"
  /\ IF sdig[t] \in onDisk
       THEN /\ faulting' = faulting \ {sdig[t]}
            /\ inMemoryCache' = inMemoryCache \cup {sdig[t]}
            /\ spc' = [spc EXCEPT ![t] = "idle"]
            /\ sdig' = [sdig EXCEPT ![t] = NoHash]
            /\ UNCHANGED <<smem, fatal>>
       ELSE /\ fatal' = TRUE
            /\ UNCHANGED <<faulting, inMemoryCache, spc, sdig, smem>>
  /\ UNCHANGED <<have, onDisk, returned>>
  /\ UNCHANGED nonStoreVars

\* FaultIn: ioutil.ReadFile(me.Path(hash)) without the mutex, then with it:
\* log.Fatal on a read error, else delete(faulting, hash), LRU Add, Broadcast.
FaultInRead(t) ==
  /\ ~fatal
  /\ spc[t] = "fiRead"
  /\ IF sdig[t] \in onDisk
       THEN /\ faulting' = faulting \ {sdig[t]}
            /\ inMemoryCache' = inMemoryCache \cup {sdig[t]}
            /\ spc' = [Broadcast(spc) EXCEPT ![t] = "idle"]
            /\ sdig' = [sdig EXCEPT ![t] = NoHash]
            /\ UNCHANGED <<smem, fatal>>
       ELSE /\ fatal' = TRUE
            /\ UNCHANGED <<faulting, inMemoryCache, spc, sdig, smem>>
  /\ UNCHANGED <<have, onDisk, returned>>
  /\ UNCHANGED nonStoreVars

\* ContentsIfLoaded with the mutex: cond.Wait while faulting[hash], else the
\* return of what the LRU has.
ContentsTest(t) ==
  /\ ~fatal
  /\ spc[t] = "cilTest"
  /\ IF sdig[t] \in faulting
       THEN /\ spc' = [spc EXCEPT ![t] = "cilWait"]
            /\ UNCHANGED <<sdig, smem>>
       ELSE Leave(t)
  /\ UNCHANGED <<have, onDisk, inMemoryCache, faulting, fatal, returned>>
  /\ UNCHANGED nonStoreVars

\* The save paths of the store.
NextStore ==
  \/ \E t \in Jobs, d \in Hashes, mem \in BOOLEAN : Save(t, d, mem)
  \/ \E t \in Jobs, d \in Hashes, mem \in BOOLEAN : FetchFromServer(t, d, mem)
  \/ \E t \in Jobs, d \in Hashes, mem \in BOOLEAN : DestructiveSavePath(t, d, mem)
  \/ \E t \in Jobs : SaveWrite(t)
  \/ \E t \in Jobs : SaveHave(t)
  \/ \E t \in Jobs : DspHave(t)
  \/ \E t \in Jobs : DspRename(t)

SpecStore == InitStore /\ [][NextStore]_vars

\* The readers of the store: FaultIn and ContentsIfLoaded on the blobs the
\* store was opened with.
NextFault ==
  \/ \E t \in Jobs, d \in Hashes : FaultIn(t, d)
  \/ \E t \in Jobs, d \in Hashes : ContentsIfLoaded(t, d)
  \/ \E t \in Jobs : FaultInTest(t)
  \/ \E t \in Jobs : FaultInRead(t)
  \/ \E t \in Jobs : ContentsTest(t)

\* A caller that holds or waits for the mutex gets it, and a disk read ends.
FaultFair ==
  \A t \in Jobs : /\ WF_vars(FaultInTest(t))
                   /\ WF_vars(FaultInRead(t))
                   /\ WF_vars(ContentsTest(t))

SpecFault == InitStore /\ [][NextFault]_vars /\ FaultFair

\* The pool without the clock and the idle reap: picks, completions, drops and
\* the refresh of the workers map.
NextBlacklist ==
  \/ \E t \in Jobs : PickFast(t)
  \/ \E t \in Jobs : PickSlow(t)
  \/ \E t \in Jobs : PickFetch(t)
  \/ \E t \in Jobs : TryConnectNext(t)
  \/ \E t \in Jobs : TryConnectCreate(t)
  \/ \E t \in Jobs : TryConnectEnd(t)
  \/ \E t \in Jobs : PickFinish(t)
  \/ \E t \in Jobs : JobDone(t)
  \/ \E t \in Jobs : Drop(t)
  \/ \E t \in Jobs : Release(t)
  \/ RefreshWorkers

SpecBlacklist == Init /\ [][NextBlacklist]_vars

\* ------------------------------------------------- mirrorConnection.replay
\* A master with a mirror per address and every job running on one.
InitReplay ==
  /\ WaiterInit
  /\ jstep = [t \in Jobs |-> "send"]
  /\ lastCalls = [t \in Jobs |-> <<>>]
  /\ sendErr = [t \in Jobs |-> FALSE]
  /\ dropped = [t \in Jobs |-> FALSE]
  /\ reaped = FALSE
  /\ tcOpened = 0
  /\ workers = Addrs
  /\ mirrors = Addrs
  /\ sinceAction = 0
  /\ lock = NoJob
  /\ maxJobs = [a \in Addrs |-> IF a = 1 THEN wantedMaxJobs ELSE 0]
  /\ availableJobs = [a \in Addrs |->
       maxJobs[a] - Cardinality({t \in Jobs : RunMirror(t) = a})]
  /\ pendingChanges = [a \in Addrs |-> <<>>]
  /\ pc = [t \in Jobs |-> "running"]
  /\ held = [t \in Jobs |-> [addr |-> RunMirror(t), inMap |-> TRUE]]
  /\ tcTodo = {}
  /\ tcBlack = {}
  /\ tcWanted = 0
  /\ tcAddr = NoAddr
  /\ \E db \in SUBSET Hashes : StoreInit(db)
  /\ rpCaller = NoJob
  /\ rpFiles = <<>>
  /\ rpIdx = 0
  /\ rpRes = ""
  /\ rpApplied = FALSE
  /\ rpQueued = FALSE
  /\ root = {}
  /\ fhash \in [Files -> Hashes \cup {NoHash}]
  /\ AttrInit
  /\ BlobInit
  /\ ShipInit

\* replay(fset) is called: the range loop over fset.Files starts.
ReplayCall(t) ==
  /\ rpCaller = NoJob
  /\ \E fset \in FileSets :
       /\ \A a \in mirrors : Len(pendingChanges[a]) + Len(fset) <= MaxPending
       /\ rpFiles' = fset
  /\ rpCaller' = t
  /\ rpIdx' = 1
  /\ rpRes' = ""
  /\ rpApplied' = FALSE
  /\ rpQueued' = FALSE
  /\ UNCHANGED <<root, fhash>>
  /\ UNCHANGED <<poolVars, connVars, jobVars, waiterVars, sendVars, dropVars, storeVars, attrVars, blobVars, shipVars>>

\* FetchBetweenContentServers into the master's cache: nothing to fetch for a
\* digest the cache has, else the content arrives or the call fails.
FetchBetweenContentServers(h, ok) ==
  /\ have' = IF ok THEN have \cup {h} ELSE have
  /\ onDisk' = IF ok THEN onDisk \cup {h} ELSE onDisk
  /\ UNCHANGED <<inMemoryCache, faulting, fatal, spc, sdig, smem, returned>>

\* A replay that applies each entry right after fetching its content.
ReplayFetchApplyEach(t) ==
  /\ rpCaller = t
  /\ rpRes = ""
  /\ rpIdx <= Len(rpFiles)
  /\ LET h == fhash[rpFiles[rpIdx]] IN
       \E ok \in {TRUE} \cup (IF h = NoHash \/ HasHash(h) THEN {} ELSE {FALSE}) :
         /\ IF h = NoHash THEN UNCHANGED storeVars ELSE FetchBetweenContentServers(h, ok)
         /\ rpRes' = IF ok THEN "" ELSE "err"
         /\ rpIdx' = IF ok THEN rpIdx + 1 ELSE rpIdx
         /\ root' = IF ok THEN root \cup {rpFiles[rpIdx]} ELSE root
         /\ rpApplied' = (rpApplied \/ ok)
  /\ UNCHANGED <<rpCaller, rpFiles, rpQueued, fhash>>
  /\ UNCHANGED <<poolVars, connVars, jobVars, waiterVars, sendVars, dropVars, attrVars, blobVars, shipVars>>

\* One iteration of replay's loop: an entry without a hash is passed over, an
\* entry with one is fetched, and a failed fetch is returned at once.
ReplayFetch(t) ==
  /\ rpCaller = t
  /\ rpRes = ""
  /\ rpIdx <= Len(rpFiles)
  /\ LET h == fhash[rpFiles[rpIdx]] IN
       \E ok \in {TRUE} \cup (IF h = NoHash \/ HasHash(h) THEN {} ELSE {FALSE}) :
         /\ IF h = NoHash THEN UNCHANGED storeVars ELSE FetchBetweenContentServers(h, ok)
         /\ rpRes' = IF ok THEN "" ELSE "err"
         /\ rpIdx' = IF ok THEN rpIdx + 1 ELSE rpIdx
  /\ UNCHANGED <<rpCaller, rpFiles, rpApplied, rpQueued, root, fhash>>
  /\ UNCHANGED <<poolVars, connVars, jobVars, waiterVars, sendVars, dropVars, attrVars, blobVars, shipVars>>

\* me.master.replay(fset): the entries go into the writable root.
MasterReplay(t) ==
  /\ rpCaller = t
  /\ rpRes = ""
  /\ rpIdx > Len(rpFiles)
  /\ ~rpApplied
  /\ root' = root \cup Range(rpFiles)
  /\ rpApplied' = TRUE
  /\ UNCHANGED <<rpCaller, rpFiles, rpIdx, rpRes, rpQueued, fhash>>
  /\ UNCHANGED <<poolVars, connVars, jobVars, waiterVars, sendVars, dropVars, storeVars, attrVars, blobVars, shipVars>>

\* me.master.mirrors.queueFiles(me, fset) and return nil.
ReplayQueue(t) ==
  /\ rpCaller = t
  /\ rpRes = ""
  /\ rpApplied
  /\ pendingChanges' = PoolQueueFiles(pendingChanges, mirrors, held[t], rpFiles)
  /\ rpQueued' = TRUE
  /\ rpRes' = "ok"
  /\ UNCHANGED <<rpCaller, rpFiles, rpIdx, rpApplied, root, fhash>>
  /\ UNCHANGED <<poolVars, maxJobs, availableJobs, jobVars, waiterVars, sendVars, dropVars, storeVars, attrVars, blobVars, shipVars>>

\* The caller has the result of replay and goes on.
ReplayReturn(t) ==
  /\ rpCaller = t
  /\ rpRes # ""
  /\ rpCaller' = NoJob
  /\ UNCHANGED <<rpFiles, rpIdx, rpRes, rpApplied, rpQueued, root, fhash>>
  /\ UNCHANGED <<poolVars, connVars, jobVars, waiterVars, sendVars, dropVars, storeVars, attrVars, blobVars, shipVars>>

NextReplay ==
  \/ \E t \in Jobs : ReplayCall(t)
  \/ \E t \in Jobs : ReplayFetch(t)
  \/ \E t \in Jobs : MasterReplay(t)
  \/ \E t \in Jobs : ReplayQueue(t)
  \/ \E t \in Jobs : ReplayReturn(t)
  \/ \E t \in Jobs : SendFiles(t)

SpecReplay == InitReplay /\ [][NextReplay]_vars

\* ------------------------------------------------ worker: RpcFs attributes
\* The files of one directory.  fsAttr is the master's attribute of each file
\* (Absent when there is none), attrCache the worker's AttributeCache entry
\* (Unknown when the path was never looked up or updated), dirNames the
\* NameModeMap of the directory's cached entry, unshipped the paths of the
\* FileSets the master has replayed and not yet sent with Mirror.Update.
InitAttr ==
  /\ WaiterInit
  /\ jstep = [t \in Jobs |-> "send"]
  /\ lastCalls = [t \in Jobs |-> <<>>]
  /\ sendErr = [t \in Jobs |-> FALSE]
  /\ dropped = [t \in Jobs |-> FALSE]
  /\ reaped = FALSE
  /\ tcOpened = 0
  /\ workers = {}
  /\ mirrors = {}
  /\ sinceAction = keepAliveNs
  /\ lock = NoJob
  /\ maxJobs = [a \in Addrs |-> 0]
  /\ availableJobs = [a \in Addrs |-> 0]
  /\ pendingChanges = [a \in Addrs |-> <<>>]
  /\ pc = [t \in Jobs |-> "idle"]
  /\ held = [t \in Jobs |-> NoConn]
  /\ tcTodo = {}
  /\ tcBlack = {}
  /\ tcWanted = 0
  /\ tcAddr = NoAddr
  /\ StoreInit({})
  /\ ReplayInit
  /\ BlobInit
  /\ ShipInit
  /\ fsAttr \in [Files -> {Absent} \cup Hashes]
  /\ attrCache = [p \in Files |-> Unknown]
  /\ dirCached = FALSE
  /\ dirNames = {}
  /\ unshipped = {}

\* The names the master has in the directory.
Listing(fa) == {p \in Files : fa[p] # Absent}

\* AttributeCache.Get: the cached entry, or on a miss what fetch returned,
\* which is then the cached entry (a nil too).
AttrGet(cache, p, fetched) ==
  IF cache[p] = Unknown THEN [cache EXCEPT ![p] = fetched] ELSE cache

\* AttributeCache.Update: each path is overwritten and its name is put into
\* or taken out of the parent's NameModeMap when the parent is cached.
AttrUpdate(cache, files, fa) ==
  [p \in Files |-> IF p \in files THEN fa[p] ELSE cache[p]]

DirUpdate(names, files, fa) ==
  (names \ {p \in files : fa[p] = Absent}) \cup {p \in files : fa[p] # Absent}

\* RpcFs.Update that acknowledges the request and leaves the cache alone.
RpcFsUpdateDropped(cache, files, fa) == cache

\* RpcFs.Update / updateFiles: me.attr.Update(files).
RpcFsUpdate(cache, files, fa) == AttrUpdate(cache, files, fa)

\* RpcFs.GetAttr(name) as the caches stand, were every fetch it makes to
\* succeed: ENOENT (Absent) when the parent's NameModeMap has no such name or
\* the entry is nil, else the entry.
GetAttrResult(p) ==
  LET names == IF dirCached THEN dirNames ELSE Listing(fsAttr)
      entry == IF attrCache[p] = Unknown THEN fsAttr[p] ELSE attrCache[p]
  IN  IF p \in names THEN entry ELSE Absent

\* The master replays a FileSet: the files get new attributes or go away.
\* The FileSet is queued for the worker.
MasterWrite(p, v) ==
  /\ fsAttr[p] # v
  /\ fsAttr' = [fsAttr EXCEPT ![p] = v]
  /\ unshipped' = unshipped \cup {p}
  /\ UNCHANGED <<attrCache, dirCached, dirNames>>
  /\ UNCHANGED <<poolVars, connVars, jobVars, waiterVars, sendVars, dropVars, storeVars, replayVars, blobVars, shipVars>>

\* Mirror.Update reaches the worker with the queued FileAttrs.
Update ==
  /\ unshipped # {}
  /\ attrCache' = RpcFsUpdate(attrCache, unshipped, fsAttr)
  /\ dirNames' = IF dirCached THEN DirUpdate(dirNames, unshipped, fsAttr) ELSE dirNames
  /\ unshipped' = {}
  /\ UNCHANGED <<fsAttr, dirCached>>
  /\ UNCHANGED <<poolVars, connVars, jobVars, waiterVars, sendVars, dropVars, storeVars, replayVars, blobVars, shipVars>>

\* RpcFs.GetAttr(name) by a process on the worker.  The parent is looked up
\* first; the entry of the name is looked up only when the parent has it.
\* fetchAttr returns nil when the FsServer.GetAttr call fails.
GetAttr(p) ==
  /\ \E ok \in BOOLEAN :
       LET names == IF dirCached THEN dirNames ELSE Listing(fsAttr)
           fetched == IF ok THEN fsAttr[p] ELSE Absent IN
       /\ dirCached' = TRUE
       /\ dirNames' = names
       /\ attrCache' = IF p \in names THEN AttrGet(attrCache, p, fetched) ELSE attrCache
  /\ UNCHANGED <<fsAttr, unshipped>>
  /\ UNCHANGED <<poolVars, connVars, jobVars, waiterVars, sendVars, dropVars, storeVars, replayVars, blobVars, shipVars>>

NextAttr ==
  \/ \E p \in Files, v \in {Absent} \cup Hashes : MasterWrite(p, v)
  \/ Update
  \/ \E p \in Files : GetAttr(p)

SpecAttr == InitAttr /\ [][NextAttr]_vars

\* ------------------------------------------------- content store: the bytes
\* ContentCache with the content of every file and LRU entry, used by one
\* caller.  A digest is the state of the hasher: the hasher folds the bytes it
\* is given one by one, so that different byte sequences have different
\* digests and the digest of a stream depends on every write.  Sizes are
\* scaled: chunkSize stands for 1 << 18, MEMORY_LIMIT for 128 * 1024 and
\* BUFSIZE, the buffer of io.CopyN, for 32 * 1024.
chunkSize == 2
MEMORY_LIMIT == 2
BUFSIZE == 1

Bytes == 1..NBytes
Blobs == UNION {[1..n -> Bytes] : n \in 0..MaxBlob}
Min(a, b) == IF a < b THEN a ELSE b
Put(f, k, v) == [x \in DOMAIN f \cup {k} |-> IF x = k THEN v ELSE f[x]]

\* hash.Hash.Write
RECURSIVE hasherWrite(_, _)
hasherWrite(h, p) ==
  IF p = <<>> THEN h ELSE hasherWrite(h * (NBytes + 1) + Head(p), Tail(p))

\* NewHashWriter: an empty temp file and hashFunc.New().
NewHashWriter == [open |-> TRUE, dest |-> <<>>, hasher |-> 1]

\* HashWriter.Write: the bytes go to the temp file and to the hasher.
HashWriterWrite(w, p) ==
  [w EXCEPT !.dest = @ \o p, !.hasher = hasherWrite(@, p)]

HashWriterSum(w) == w.hasher

\* HashWriter.Close: the temp file is renamed to HashPath(dir, sum).
HashWriterClose(disk, w) == Put(disk, HashWriterSum(w), w.dest)

\* CopyClose that copies one buffer and stops.
CopyNOnce(w, input) ==
  HashWriterWrite(w, SubSeq(input, 1, Min(BUFSIZE, Len(input))))

\* HashWriter.CopyClose up to its Close: io.CopyN hands the input to Write one
\* buffer after the other.
RECURSIVE CopyN(_, _)
CopyN(w, input) ==
  IF input = <<>>
    THEN w
    ELSE LET n == Min(BUFSIZE, Len(input)) IN
         CopyN(HashWriterWrite(w, SubSeq(input, 1, n)), SubSeq(input, n + 1, Len(input)))

\* The store: the have set, the files by digest and the LRU entries.
Store == [have |-> have, disk |-> diskBytes, mem |-> memBytes]

\* The store after a step: st, and the fields u of the caller.
SetStore(st, u) ==
  /\ have' = st.have
  /\ onDisk' = DOMAIN st.disk
  /\ inMemoryCache' = DOMAIN st.mem
  /\ contentCache' = u @@ [diskBytes |-> st.disk, memBytes |-> st.mem] @@ contentCache

\* saveViaMemory: WriteClose into a HashWriter ("" when the write fails), then
\* have[hash] = true and the content goes into the LRU.
saveViaMemory(st, content, ok) ==
  IF ~ok
    THEN [st |-> st, hash |-> NoHash]
    ELSE LET writer == HashWriterWrite(NewHashWriter, content)
             hash == HashWriterSum(writer)
         IN  [st |-> [have |-> st.have \cup {hash},
                      disk |-> HashWriterClose(st.disk, writer),
                      mem |-> Put(st.mem, hash, content)],
              hash |-> hash]

\* SaveStream(input, size) for a reader that yields size bytes: through memory
\* below _MEMORY_LIMIT, else CopyClose into a HashWriter ("" when it fails)
\* and have[hash] = true.
SaveStream(st, input, size, ok) ==
  IF size < MEMORY_LIMIT
    THEN saveViaMemory(st, input, ok)
    ELSE IF ~ok
      THEN [st |-> st, hash |-> NoHash]
      ELSE LET dup == CopyN(NewHashWriter, input)
               hash == HashWriterSum(dup)
           IN  [st |-> [have |-> st.have \cup {hash},
                        disk |-> HashWriterClose(st.disk, dup),
                        mem |-> st.mem],
                hash |-> hash]

\* Serve: from the LRU entry c as c[req.Start:min(req.End, len(c))], which
\* panics when Start is beyond the end; else from the file at Path(req.Hash)
\* with ReadAt into a buffer of End - Start bytes, io.EOF being no error.
Serve(st, req) ==
  IF req.Hash \in DOMAIN st.mem
    THEN LET c == st.mem[req.Hash]
             end == Min(req.End, Len(c))
         IN  IF req.Start > end
               THEN [err |-> "panic", Chunk |-> <<>>, lru |-> TRUE]
               ELSE [err |-> "", Chunk |-> SubSeq(c, req.Start + 1, end), lru |-> TRUE]
    ELSE IF req.Hash \notin DOMAIN st.disk
      THEN [err |-> "open", Chunk |-> <<>>, lru |-> FALSE]
      ELSE LET f == st.disk[req.Hash]
               n == Min(req.End - req.Start, Len(f) - req.Start)
           IN  [err |-> "", lru |-> FALSE,
                Chunk |-> IF n <= 0 THEN <<>> ELSE SubSeq(f, req.Start + 1, req.Start + n)]

\* The peer's store: B on its disk and, with peerMem, in its LRU.
Peer ==
  LET d == hasherWrite(1, blob) IN
  [have |-> {d}, disk |-> Put(<<>>, d, blob),
   mem |-> IF peerMem THEN Put(<<>>, d, blob) ELSE <<>>]

\* What the peer's Serve answers to req.
HonestReply(req) == [err |-> FALSE, Chunk |-> Serve(Peer, req).Chunk]

\* A chunk damaged on the way: a byte lost, changed or added.
Tamper(c) ==
  {SubSeq(c, 1, Len(c) - 1) : x \in IF c = <<>> THEN {} ELSE {1}}
    \cup {[c EXCEPT ![1] = b] : b \in IF c = <<>> THEN {} ELSE Bytes \ {c[1]}}
    \cup {Append(c, b) : b \in IF Len(c) < chunkSize THEN Bytes ELSE {}}

\* The fetcher: the RPC fails (also when the peer's Serve does), or it brings
\* the peer's chunk, intact or damaged.
Fetcher(req) ==
  {[err |-> TRUE, Chunk |-> <<>>]}
    \cup IF Serve(Peer, req).err # ""
           THEN {}
           ELSE {[err |-> FALSE, Chunk |-> c] :
                   c \in {Serve(Peer, req).Chunk} \cup Tamper(Serve(Peer, req).Chunk)}

\* A store opened on a directory that may hold B, a peer that has B, and a
\* caller that wants the digest of B.
InitBlob ==
  /\ WaiterInit
  /\ jstep = [t \in Jobs |-> "send"]
  /\ lastCalls = [t \in Jobs |-> <<>>]
  /\ sendErr = [t \in Jobs |-> FALSE]
  /\ dropped = [t \in Jobs |-> FALSE]
  /\ reaped = FALSE
  /\ tcOpened = 0
  /\ workers = {}
  /\ mirrors = {}
  /\ sinceAction = keepAliveNs
  /\ lock = NoJob
  /\ maxJobs = [a \in Addrs |-> 0]
  /\ availableJobs = [a \in Addrs |-> 0]
  /\ pendingChanges = [a \in Addrs |-> <<>>]
  /\ pc = [t \in Jobs |-> "idle"]
  /\ held = [t \in Jobs |-> NoConn]
  /\ tcTodo = {}
  /\ tcBlack = {}
  /\ tcWanted = 0
  /\ tcAddr = NoAddr
  /\ ReplayInit
  /\ AttrInit
  /\ ShipInit
  /\ \E b \in Blobs, inDir \in BOOLEAN, inLru \in BOOLEAN :
       /\ contentCache =
            [blob |-> b, pre |-> inDir, peerMem |-> inLru,
             diskBytes |-> IF inDir THEN Put(<<>>, hasherWrite(1, b), b) ELSE <<>>,
             memBytes |-> <<>>, bpc |-> "idle", bhash |-> hasherWrite(1, b), written |-> 0,
             output |-> NoWriter, reqs |-> <<>>, received |-> <<>>, nSave |-> 0, bres |-> "",
             faults |-> {}, bret |-> {}, served |-> <<>>]
       /\ have = IF inDir THEN {hasherWrite(1, b)} ELSE {}
  /\ onDisk = have
  /\ inMemoryCache = {}
  /\ faulting = {}
  /\ fatal = FALSE
  /\ spc = [t \in Jobs |-> "idle"]
  /\ sdig = [t \in Jobs |-> NoHash]
  /\ smem = [t \in Jobs |-> FALSE]
  /\ returned = {}

otherVars == <<poolVars, connVars, jobVars, waiterVars, sendVars, dropVars, replayVars, attrVars,
               shipVars, faulting, spc, sdig, smem, returned>>

\* FetchFromServer(fetcher, hash) up to its loop: nil at once when
\* HasHash(hash).
FetchBytesCall ==
  /\ bpc = "idle"
  /\ contentCache' =
       (IF HasHash(bhash) THEN [bpc |-> "done", bres |-> "nil"] ELSE [bpc |-> "loop"])
         @@ [written |-> 0, output |-> NoWriter] @@ contentCache
  /\ UNCHANGED <<have, onDisk, inMemoryCache, fatal>>
  /\ UNCHANGED otherVars

\* A stream that goes on until a chunk comes back empty.
ShortChunkEmpty(c) == Len(c) = 0

\* len(rep.Chunk) < chunkSize
ShortChunk(c) == Len(c) < chunkSize

\* A fetch that takes whatever digest the bytes have.
CorruptionIgnored(saved, hash) == FALSE

\* saved != hash, the test before log.Fatalf("Corruption: ...")
Corruption(saved, hash) == saved # hash

\* One iteration of FetchFromServer's loop, and what follows the loop when
\* the iteration breaks out of it: the request for [written, written +
\* chunkSize), the return of the fetcher's error, the single Save of a short
\* first chunk, else the Write into output; after a short chunk output is
\* closed, its digest compared with hash and have[saved] = true.
FetchBytesChunk ==
  /\ bpc = "loop"
  /\ LET req == [Hash |-> bhash, Start |-> written, End |-> written + chunkSize] IN
     \E reply \in Fetcher(req), ok \in BOOLEAN :
       LET sent == [reqs |-> Append(reqs, req),
                    faults |-> faults \cup
                      (IF reply.err THEN {"rpc"}
                       ELSE (IF reply # HonestReply(req) THEN {"tamper"} ELSE {})
                              \cup (IF ok THEN {} ELSE {"io"}))]
           got == [received |-> received \o reply.Chunk] @@ sent
       IN
       IF reply.err
         THEN /\ contentCache' = [bres |-> "err", bpc |-> "done"] @@ sent @@ contentCache
              /\ UNCHANGED <<have, onDisk, inMemoryCache, fatal>>
         ELSE IF ShortChunk(reply.Chunk) /\ written = 0
           THEN LET s == saveViaMemory(Store, reply.Chunk, ok) IN
                /\ SetStore(s.st, [nSave |-> nSave + 1, bpc |-> "done",
                                   bres |-> IF Corruption(s.hash, bhash) THEN "fatal" ELSE "nil"]
                                    @@ got)
                /\ fatal' = Corruption(s.hash, bhash)
           ELSE LET opened == IF output.open THEN output ELSE NewHashWriter
                    w == HashWriterWrite(opened, reply.Chunk)
                    saved == HashWriterSum(w)
                IN
                IF ~ok
                  THEN /\ contentCache' =
                            [output |-> opened, bres |-> "err", bpc |-> "done"] @@ got @@ contentCache
                       /\ UNCHANGED <<have, onDisk, inMemoryCache, fatal>>
                  ELSE IF ShortChunk(reply.Chunk)
                    THEN /\ SetStore([have |-> IF Corruption(saved, bhash) THEN have
                                               ELSE have \cup {saved},
                                      disk |-> HashWriterClose(diskBytes, w),
                                      mem |-> memBytes],
                                     [output |-> w, written |-> written + Len(reply.Chunk),
                                      bpc |-> "done",
                                      bres |-> IF Corruption(saved, bhash) THEN "fatal" ELSE "nil"]
                                       @@ got)
                         /\ fatal' = Corruption(saved, bhash)
                    ELSE /\ contentCache' =
                              [output |-> w, written |-> written + Len(reply.Chunk)]
                                @@ got @@ contentCache
                         /\ UNCHANGED <<have, onDisk, inMemoryCache, fatal>>
  /\ UNCHANGED otherVars

\* FetchFromServer on the store, from a peer that has B.
NextFetch ==
  \/ FetchBytesCall
  \/ FetchBytesChunk

SpecFetch == InitBlob /\ [][NextFetch]_vars

\* Save(B)
SaveBytes ==
  /\ \A r \in bret : r.op # "Save"
  /\ \E ok \in BOOLEAN :
       LET s == saveViaMemory(Store, blob, ok) IN
       SetStore(s.st, [bret |-> bret \cup {[op |-> "Save", hash |-> s.hash]}])
  /\ UNCHANGED fatal
  /\ UNCHANGED otherVars

\* SaveStream(reader of B, len(B))
SaveStreamBytes ==
  /\ \A r \in bret : r.op # "SaveStream"
  /\ \E ok \in BOOLEAN :
       LET s == SaveStream(Store, blob, Len(blob), ok) IN
       SetStore(s.st, [bret |-> bret \cup {[op |-> "SaveStream", hash |-> s.hash]}])
  /\ UNCHANGED fatal
  /\ UNCHANGED otherVars

\* Serve({digest, 0, len(B)}) for a digest that a save has returned.
ServeBytes ==
  /\ served = <<>>
  /\ \E r \in bret :
       /\ r.hash # NoHash
       /\ contentCache' =
            [served |-> <<Serve(Store, [Hash |-> r.hash, Start |-> 0, End |-> Len(blob)])>>]
              @@ contentCache
  /\ UNCHANGED <<have, onDisk, inMemoryCache, fatal>>
  /\ UNCHANGED otherVars

\* Saving B both ways and serving it back.
NextSave ==
  \/ SaveBytes
  \/ SaveStreamBytes
  \/ ServeBytes

SpecSave == InitBlob /\ [][NextSave]_vars

\* -------------------------- mirror: queueFiles and sendFiles on one mirror
\* The mirror under address 1, the jobs placed on it, which call its sendFiles,
\* and the jobs on the other mirrors, whose FileSets are queued on it.
shipFrame == <<poolVars, maxJobs, availableJobs, jobVars, waiterVars, sendVars, dropVars,
               storeVars, replayVars, attrVars, blobVars>>

\* queueFiles that appends without taking pendingChangesMutex.
ConnQueueFilesNoMutex(t) ==
  /\ held[t].addr # 1
  /\ \E fset \in FileSets :
       /\ Len(appended) + Len(fset) <= MaxQueued
       /\ pendingChanges' = [pendingChanges EXCEPT ![1] = ConnQueueFiles(@, fset)]
       /\ changes' = [appended |-> appended \o fset] @@ changes
  /\ UNCHANGED shipFrame

\* mirrorConnection.queueFiles(fset), lines 51-55: Lock, append, Unlock.
ConnQueueFilesLocked(t) ==
  /\ held[t].addr # 1
  /\ pendingChangesMutex = NoJob
  /\ \E fset \in FileSets :
       /\ Len(appended) + Len(fset) <= MaxQueued
       /\ pendingChanges' = [pendingChanges EXCEPT ![1] = ConnQueueFiles(@, fset)]
       /\ changes' = [appended |-> appended \o fset] @@ changes
  /\ UNCHANGED shipFrame

\* sendFiles, lines 58-66: Lock; an empty queue returns nil at once (the
\* deferred Unlock runs), otherwise req.Files is the queue.
SendFilesLock(t) ==
  /\ held[t].addr = 1
  /\ sfpc[t] = "idle"
  /\ pendingChangesMutex = NoJob
  /\ IF Len(pendingChanges[1]) = 0
     THEN UNCHANGED changes
     ELSE changes' = [mutex |-> t, sfpc |-> [sfpc EXCEPT ![t] = "call"],
                      files |-> [updFiles EXCEPT ![t] = pendingChanges[1]]] @@ changes
  /\ UNCHANGED <<pendingChanges, shipFrame>>

\* sendFiles, lines 68-72: the Mirror.Update call returns; on an error sendFiles
\* returns it and the deferred Unlock runs.
SendFilesCall(t) ==
  /\ sfpc[t] = "call"
  /\ \E ok \in BOOLEAN :
       IF ok
       THEN changes' = [sfpc |-> [sfpc EXCEPT ![t] = "clear"],
                        carried |-> carried \o updFiles[t]] @@ changes
       ELSE changes' = [sfpc |-> [sfpc EXCEPT ![t] = "idle"],
                        files |-> [updFiles EXCEPT ![t] = <<>>],
                        mutex |-> NoJob] @@ changes
  /\ UNCHANGED <<pendingChanges, shipFrame>>

\* sendFiles, lines 73-75: me.pendingChanges = me.pendingChanges[:0], and the
\* deferred Unlock.
SendFilesClear(t) ==
  /\ sfpc[t] = "clear"
  /\ pendingChanges' = [pendingChanges EXCEPT ![1] = <<>>]
  /\ changes' = [sfpc |-> [sfpc EXCEPT ![t] = "idle"],
                 files |-> [updFiles EXCEPT ![t] = <<>>],
                 mutex |-> NoJob] @@ changes
  /\ UNCHANGED shipFrame

NextShip ==
  \/ \E t \in Jobs : ConnQueueFilesLocked(t)
  \/ \E t \in Jobs : SendFilesLock(t)
  \/ \E t \in Jobs : SendFilesCall(t)
  \/ \E t \in Jobs : SendFilesClear(t)

SpecShip == InitSend /\ [][NextShip]_vars

\* =============================================================== properties
\* A job thread's pick returns a mirror in this step.
PickReturns(t) == pc[t] # "running" /\ pc'[t] = "running"

\* C1: every open mirror has availableJobs <= maxJobs, hence the sum of
\* availableJobs over the open mirrors never exceeds the sum of maxJobs.
C1_AvailableAtMostMax ==
  /\ \A a \in mirrors : availableJobs[a] <= maxJobs[a]
  /\ SumOver(mirrors, availableJobs) <= PoolMaxJobs(mirrors, maxJobs)
  /\ PoolAvailableJobs(mirrors, availableJobs) <= PoolMaxJobs(mirrors, maxJobs)

\* C1 witness: a mirror that served a job is back at full capacity after
\* jobDone, next to an open mirror that has no free slot.
C1_Witness ==
  /\ sinceAction = 0
  /\ \E a, b \in mirrors :
       /\ maxJobs[a] > 0 /\ availableJobs[a] = maxJobs[a]
       /\ b # a /\ availableJobs[b] <= 0

\* C2: when pick returns a mirror while some open mirror has a free slot, the
\* returned mirror had a free slot; a mirror without a free slot is returned
\* only when every open mirror is full; exactly the returned mirror's counter
\* goes down by exactly one and no other counter changes.
C2_PickSelection ==
  [][\A t \in Jobs : PickReturns(t) =>
       LET found == held'[t].addr IN
       /\ found \in mirrors
       /\ held'[t].inMap
       /\ (\E a \in mirrors : availableJobs[a] > 0) => availableJobs[found] > 0
       /\ availableJobs[found] <= 0 => \A a \in mirrors : availableJobs[a] <= 0
       /\ availableJobs' = [availableJobs EXCEPT ![found] = availableJobs[found] - 1]
       /\ lock' = NoJob]_vars

\* C2 witness: two mirrors are open, one is oversubscribed by two jobs and the
\* other one is full too.
C2_Witness ==
  \E a, b \in mirrors :
     /\ a # b
     /\ availableJobs[a] < 0
     /\ availableJobs[b] <= 0
     /\ \A t \in Jobs : pc[t] = "running" /\ held[t] = [addr |-> a, inMap |-> TRUE]

\* C3: pick returns the "no workers" error exactly when availableJobs() was 0
\* at entry and the sum of maxJobs is still 0 after the refresh and tryConnect,
\* and then no counter changes; otherwise it returns a member of the mirrors map.
C3_NoWorkersError ==
  [][\A t \in Jobs :
       /\ (pc[t] = "idle" /\ pc'[t] \in {"fetch", "connect", "select"})
            => PoolAvailableJobs(mirrors, availableJobs) = 0
       /\ (pc[t] = "idle" /\ pc'[t] = "running")
            => PoolAvailableJobs(mirrors, availableJobs) > 0
       /\ (pc[t] # "noworkers" /\ pc'[t] = "noworkers")
            => /\ pc[t] = "select"
               /\ PoolMaxJobs(mirrors, maxJobs) = 0
               /\ UNCHANGED <<availableJobs, maxJobs, mirrors>>
       /\ (pc[t] = "select" /\ pc'[t] # "select")
            => IF PoolMaxJobs(mirrors, maxJobs) = 0
               THEN pc'[t] = "noworkers"
               ELSE pc'[t] = "running"
       /\ PickReturns(t) => held'[t].inMap /\ held'[t].addr \in mirrors']_vars

\* C3 witness: a pick has returned the error with workers known to the pool.
C3_Witness ==
  \E t \in Jobs : pc[t] = "noworkers" /\ lock = NoJob /\ workers # {}

\* C10: pool-level queueFiles(origin, fset) appends fset's entries, in order, to
\* the queue of every mirror in the mirrors map other than origin, and leaves
\* the queue of origin (and of every mirror outside the map) as it was.
C10_QueueSkipsOrigin ==
  [][\A t \in Jobs : QueueFiles(t) =>
       /\ held[t].inMap => pendingChanges'[held[t].addr] = pendingChanges[held[t].addr]
       /\ \A a \in Addrs \ mirrors : pendingChanges'[a] = pendingChanges[a]
       /\ \E fset \in FileSets :
            \A a \in mirrors : (held[t].inMap /\ held[t].addr = a) \/
              /\ Len(pendingChanges'[a]) = Len(pendingChanges[a]) + Len(fset)
              /\ SubSeq(pendingChanges'[a], 1, Len(pendingChanges[a])) = pendingChanges[a]
              /\ \A i \in 1..Len(fset) :
                   pendingChanges'[a][Len(pendingChanges[a]) + i] = fset[i]]_vars

\* C10 witness: two mirrors are open, a job runs on one of them, and the other
\* one holds a two-entry FileSet in order while the job's mirror holds nothing.
C10_Witness ==
  \E t \in Jobs : \E b \in mirrors :
     /\ pc[t] = "running"
     /\ held[t].inMap
     /\ b # held[t].addr
     /\ pendingChanges[held[t].addr] = <<>>
     /\ pendingChanges[b] = <<1, 2>>

\* How often v occurs in q.
Count(q, v) == Cardinality({k \in 1..Len(q) : q[k] = v})

\* The place of v in q.
Pos(q, v) == CHOOSE k \in 1..Len(q) : q[k] = v

\* The values sent to a job's channel, in the order the channel hands them out.
Seen(t) == rcvd[t] \o buf[t]

\* C4: once the broadcast of FileSetId i is over, every channel that was
\* registered when it took the lock, other than the producer's own, has been
\* sent i exactly once, and no other channel (the producer's own, or one
\* registered later) has been sent i.
C4_BroadcastExactlyOnce ==
  \A i \in ended : \A t \in Jobs :
     Count(Seen(t), i) = IF t \in regd[i] THEN 1 ELSE 0

\* C5: a response whose replay failed is never broadcast, applied to the
\* attribute cache or queued, and once its flush is over every channel that
\* was registered at that moment is closed.
C5_FlushClosesAll ==
  /\ \A t \in flushed : chClosed[t]
  /\ \A t \in Jobs : werr[t] = "replay" =>
       /\ rep[t].id \notin Range(bcastOrder)
       /\ rep[t].id \notin updated
       /\ rep[t].id \notin Range(queued)

\* C6: an observing job leaves its receive loop without error only by receiving
\* a value equal to rep.FileSetId; any other value is consumed and the loop goes
\* on; the only other way out is the closed and drained channel, with the error
\* "files were never sent.".
C6_ObserverWaitsForId ==
  [][\A t \in Jobs :
       /\ wpc[t] = "recv" =>
            /\ wpc'[t] \in {"recv", "unreg", "returned"}
            /\ wpc'[t] = "unreg" =>
                 buf[t] # <<>> /\ Head(buf[t]) = rep[t].id /\ werr'[t] = ""
            /\ wpc'[t] = "returned" =>
                 buf[t] = <<>> /\ chClosed[t] /\ werr'[t] = "files were never sent."
            /\ (wpc'[t] = "recv" /\ rcvd'[t] # rcvd[t]) =>
                 Head(buf[t]) # rep[t].id /\ rcvd'[t] = Append(rcvd[t], Head(buf[t]))
       /\ (rep[t].nil /\ wpc[t] = "unreg" /\ wpc'[t] = "returned") =>
            werr'[t] = "" /\ rcvd[t] # <<>> /\ rcvd[t][Len(rcvd[t])] = rep[t].id]_vars

\* C6 witness: an observer has returned without error after it discarded a
\* value that was not its FileSetId.
C6_Witness ==
  \E t \in Jobs :
     /\ wpc[t] = "returned" /\ rep[t].nil /\ werr[t] = ""
     /\ Len(rcvd[t]) >= 2
     /\ rcvd[t][1] # rep[t].id

\* C7: when wait has returned, on whichever path, the job's channel is not a
\* member of the waiter's registered channels.
C7_UnregisteredOnExit ==
  \A t \in Jobs : wpc[t] = "returned" => t \notin channels

C9_ReplayedBeforeBroadcast ==
  /\ \A t \in Jobs : \A i \in Range(Seen(t)) :
       i \in replayed /\ i \in updated /\ i \in Range(queued)
  /\ Range(bcastOrder) \subseteq Range(queued)
  /\ Range(queued) \subseteq updated
  /\ updated \subseteq replayed
  /\ \A a \in mirrors \ {1} : pendingChanges[a] = Flatten(queued)
  /\ pendingChanges[1] = <<>>

\* C9 witness: an observer has received its FileSetId while the FileSet's
\* entries wait in the queue of another mirror.
C9_Witness ==
  \E t \in Jobs : \E a \in mirrors :
     /\ rep[t].nil /\ wpc[t] = "returned" /\ werr[t] = ""
     /\ a # held[t].addr
     /\ pendingChanges[a] = Flatten(<<rep[t].id>>)

\* C11: sendFiles with an empty queue makes no RPC and returns nil; with a
\* non-empty queue it makes exactly one Mirror.Update request that carries the
\* whole queue in queue order; the queue is empty after a success, and after a
\* failure the error is returned and the queue is what it was.
C11_SendFilesContract ==
  [][\A t \in Jobs : (jstep[t] = "send" /\ jstep'[t] # "send") =>
       LET q == pendingChanges[held[t].addr]
           q2 == pendingChanges'[held[t].addr] IN
       /\ q = <<>> => lastCalls'[t] = <<>> /\ ~sendErr'[t] /\ q2 = <<>>
       /\ q # <<>> =>
            /\ Len(lastCalls'[t]) = 1
            /\ lastCalls'[t][1] = q
            /\ ~sendErr'[t] => q2 = <<>>
            /\ sendErr'[t] => q2 = q
       /\ \A a \in Addrs \ {held[t].addr} : pendingChanges'[a] = pendingChanges[a]]_vars

\* C11 witness: a sendFiles has failed on a queue of two entries, which are
\* still queued in their order after the one request that carried them.
C11_Witness ==
  \E t \in Jobs :
     /\ jstep[t] = "done" /\ sendErr[t]
     /\ lastCalls[t] = <<pendingChanges[held[t].addr]>>
     /\ Len(pendingChanges[held[t].addr]) = 2

\* C12: when a job's Run is sent to the worker of its mirror, nothing is
\* waiting in that mirror's pending queue: every FileAttr queued for the mirror
\* before the dispatch went out in a successful Update before it.
C12_QueueShippedBeforeRun ==
  [][\A t \in Jobs : Dispatch(t) => pendingChanges[held[t].addr] = <<>>]_vars

\* C13: a drop of a connection that drop has been called with before leaves
\* the mirrors map, the workers map and the counters of every mirror in the
\* map as they were, whatever happened between the two calls.
C13_DropIdempotent ==
  [][\A t \in Jobs : (Drop(t) /\ dropped[t]) =>
       UNCHANGED <<mirrors, workers, maxJobs, availableJobs>>]_vars

\* C14: when drop takes a mirror out of the pool, every channel registered
\* with that mirror's file-set waiter is closed by the end of the drop.
C14_DropClosesChannels ==
  [][\A t \in Jobs : (Drop(t) /\ held[t].inMap) =>
       \A c \in channels : chClosed'[c]]_vars
\* C15: a maybeDropConnections step closes mirrors only from a state where the
\* mirrors map is non-empty, the total of availableJobs equals the total of
\* maxJobs (so no job is outstanding on an open mirror that has capacity) and
\* keepAlive has passed since lastActionNs; it then closes every mirror and
\* leaves the map empty.  From any other state the step changes nothing.
DropAllowed ==
  /\ mirrors # {}
  /\ PoolAvailableJobs(mirrors, availableJobs) = PoolMaxJobs(mirrors, maxJobs)
  /\ \A a \in mirrors : maxJobs[a] > 0 => availableJobs[a] = maxJobs[a]
  /\ \A t \in Jobs : (pc[t] = "running" /\ held[t].inMap) => maxJobs[held[t].addr] = 0
  /\ sinceAction >= keepAliveNs

AllIdle == \A t \in Jobs : pc[t] = "idle"

C16_IdleReapEventually ==
  (AllIdle /\ mirrors # {})
    ~> (\/ ~AllIdle
        \/ mirrors = {} /\ PoolMaxJobs(mirrors, maxJobs) = 0)

C16_Witness ==
  /\ reaped
  /\ AllIdle
  /\ mirrors = {}
  /\ PoolMaxJobs(mirrors, maxJobs) = 0
  /\ \A t \in Jobs : ~dropped[t]

\* C17: a digest that Save, SaveStream, DestructiveSavePath or a completed
\* FetchFromServer has returned is in the have set in every later state, and
\* no step of the store takes a digest out of the have set.
C17_SavedStaysPresent ==
  /\ [](\A d \in returned : HasHash(d))
  /\ [][\A d \in Hashes : HasHash(d) => d \in have']_vars

C17_Witness ==
  \E d \in returned, t \in Jobs :
    /\ HasHash(d)
    /\ spc[t] = "dspRename"
    /\ sdig[t] # d

\* C18: a digest is in the have set only when the rename of its blob to
\* Path(digest) has completed, in every state including those inside a save.
C18_HaveOnlyAfterRename ==
  \A d \in Hashes : HasHash(d) => d \in onDisk

\* C19: for every digest at most one FaultIn caller is in the disk read, and
\* a caller in the disk read has set faulting[digest].
Readers(d) == {t \in Jobs : spc[t] = "fiRead" /\ sdig[t] = d}

C19_SingleFlight ==
  \A d \in Hashes :
    /\ Cardinality(Readers(d)) <= 1
    /\ Readers(d) # {} => d \in faulting

C19_Witness ==
  \E t \in Jobs, u \in Jobs :
    /\ spc[t] = "fiRead"
    /\ spc[u] = "fiWait"
    /\ sdig[u] = sdig[t]

\* C20: a caller of FaultIn or ContentsIfLoaded that waits for a faulting
\* digest leaves the store once the loader's read has succeeded (or the process
\* has ended in log.Fatal on a failed read), and ContentsIfLoaded returns only
\* when faulting[digest] is not set.
Waiting(t) == spc[t] \in {"fiWait", "cilWait"}

C20_WaitersReleased ==
  /\ \A t \in Jobs : Waiting(t) ~> (spc[t] = "idle" \/ fatal)
  /\ [][\A t \in Jobs : (spc[t] = "cilTest" /\ spc'[t] = "idle")
          => sdig[t] \notin faulting']_vars

C20_Witness ==
  \E t \in Jobs, u \in Jobs :
    /\ spc[t] = "cilWait"
    /\ spc[u] = "fiRead"
    /\ sdig[u] = sdig[t]
    /\ sdig[u] \in onDisk

\* C26: no thread holds the pool mutex while it is inside a network call:
\* the coordinator RPC of fetchWorkers or the connect of createMirror.
InNetworkCall(t) == pc[t] \in {"fetch", "creating"}

C26_NoLockAcrossNetwork ==
  \A t \in Jobs : lock = t => ~InNetworkCall(t)

\* C30: the mirrors map is ranged over or changed only by a thread that has
\* the pool mutex: a queueFiles step is never taken while another thread is
\* inside a section under the mutex that writes the map.
C30_MapsUnderMutex ==
  [][\A t \in Jobs : QueueFiles(t) => lock = NoJob]_vars
\* C28: a tryConnect call installs at most one mirror; it installs one only
\* under an address of the workers map that has no open mirror, asking for
\* wanted = wantedMaxJobs minus the sum of maxJobs, which is then positive;
\* an address whose createMirror failed is blacklisted, and at the end of the
\* call exactly the blacklisted addresses leave the workers map.
C28_TryConnectOneMirror ==
  /\ [](tcOpened <= 1)
  /\ [][\A t \in Jobs : TryConnectCreate(t) =>
          IF mirrors' # mirrors
            THEN /\ mirrors' = mirrors \cup {tcAddr}
                 /\ tcAddr \in workers \ mirrors
                 /\ tcWanted = wantedMaxJobs - PoolMaxJobs(mirrors, maxJobs)
                 /\ tcWanted > 0
                 /\ workers' = workers
            ELSE /\ tcAddr \in tcBlack'
                 /\ workers' = workers]_vars
  /\ [][\A t \in Jobs : TryConnectEnd(t) =>
          /\ workers' = workers \ tcBlack
          /\ mirrors' = mirrors]_vars

C28_Witness ==
  /\ tcOpened = 1
  /\ tcBlack # {}
  /\ \E t \in Jobs : pc[t] = "connect"

\* C29: whatever addresses drop or a failed connect took out of the workers
\* map, a refresh to which the coordinator answers a non-empty list makes
\* exactly that list the workers map, and a refresh with an empty answer
\* leaves the map as it is.
C29_RefreshReplacesWorkers ==
  /\ lock = NoJob =>
       \A nw \in FetchWorkers \ {{}} : ENABLED (RefreshWorkers /\ workers' = nw)
  /\ workers # {} => ~ENABLED (RefreshWorkers /\ workers' = {})

C29_Witness ==
  \E t \in Jobs :
    /\ dropped[t]
    /\ ~held[t].inMap
    /\ held[t].addr \in workers \ mirrors

\* C25: within a replay call the master's root and the mirrors' queues change
\* only once every entry has been passed and the content of every entry with
\* a hash is in the master's cache; a call that returns an error has neither
\* applied nor queued anything, and the queueing comes after the master replay.
ReplayMutates(t) ==
  /\ rpCaller = t
  /\ \/ root' # root
     \/ \E a \in Addrs : Len(pendingChanges'[a]) > Len(pendingChanges[a])

C25_FetchBeforeMutate ==
  /\ [][\A t \in Jobs : ReplayMutates(t) =>
          /\ rpIdx > Len(rpFiles)
          /\ \A k \in 1..Len(rpFiles) :
               fhash[rpFiles[k]] # NoHash => HasHash(fhash[rpFiles[k]])
          /\ rpRes = ""]_vars
  /\ [](rpRes = "err" => ~rpApplied /\ ~rpQueued)
  /\ [](rpQueued => rpApplied)

C25_Witness ==
  /\ rpRes = "err"
  /\ rpIdx = 2
  /\ root # {}

WantedReqs ==
  [k \in 1..((Len(blob) \div chunkSize) + 1) |->
     [Hash |-> bhash, Start |-> (k - 1) * chunkSize, End |-> k * chunkSize]]

C21_ChunkProtocol ==
  /\ pre => /\ reqs = <<>>
            /\ bpc = "done" => bres = "nil"
  /\ (faults = {} /\ ~pre) =>
       /\ Len(reqs) <= Len(WantedReqs)
       /\ \A k \in 1..Len(reqs) : reqs[k] = WantedReqs[k]
       /\ received = SubSeq(blob, 1, Len(received))
       /\ bpc = "loop" => Len(received) = Len(reqs) * chunkSize
       /\ bpc = "done" =>
            /\ reqs = WantedReqs
            /\ bres = "nil"
            /\ HasHash(bhash)
            /\ bhash \in DOMAIN diskBytes
            /\ diskBytes[bhash] = blob
            /\ received = blob
            /\ IF Len(blob) < chunkSize
                 THEN Len(reqs) = 1 /\ nSave = 1 /\ ~output.open
                 ELSE nSave = 0 /\ output.dest = blob

C21_Witness ==
  /\ bpc = "done"
  /\ faults = {}
  /\ ~pre
  /\ Len(blob) = 2 * chunkSize
  /\ Len(reqs) = 3
  /\ diskBytes[bhash] = blob

\* C22: FetchFromServer returns nil only when hash was in have at the call or
\* the bytes it received hash to hash, and hash gets into have only in the
\* second case; a fetch that ends without an error from the fetcher or the
\* disk with bytes of another digest ends in log.Fatalf; and after an error of
\* the fetcher the call has returned an error with hash not in have.
C22_FetchIntegrity ==
  /\ bres = "nil" => \/ pre /\ reqs = <<>>
                     \/ hasherWrite(1, received) = bhash
  /\ HasHash(bhash) => pre \/ hasherWrite(1, received) = bhash
  /\ (bpc = "done" /\ ~pre /\ bres # "err" /\ hasherWrite(1, received) # bhash)
       => bres = "fatal" /\ fatal
  /\ "rpc" \in faults => bpc = "done" /\ bres = "err" /\ ~HasHash(bhash)
  /\ bres = "err" => ~HasHash(bhash) /\ ~fatal

C22_Witness ==
  /\ bres = "fatal"
  /\ faults = {"tamper"}
  /\ Len(reqs) >= 2
  /\ ~HasHash(bhash)
  /\ HashWriterSum(output) \in DOMAIN diskBytes

\* C23: when SaveStream(reader of B, len(B)) and Save(B) both return a digest
\* it is the same digest, and Serve({digest, 0, len(B)}) after a save returns
\* B without error: from the LRU for a blob below _MEMORY_LIMIT, and from the
\* file for a larger blob that only SaveStream has saved.
C23_RoundTrip ==
  /\ \A r \in bret, q \in bret : (r.hash # NoHash /\ q.hash # NoHash) => r.hash = q.hash
  /\ served # <<>> =>
       /\ served[1].err = ""
       /\ served[1].Chunk = blob
       /\ Len(blob) < MEMORY_LIMIT => served[1].lru

C23_Witness ==
  /\ served # <<>>
  /\ ~served[1].lru
  /\ ~pre
  /\ Len(blob) > MEMORY_LIMIT
  /\ \E r \in bret, q \in bret :
       /\ r.op = "Save" /\ q.op = "SaveStream"
       /\ r.hash # NoHash
       /\ r.hash = q.hash

\* C24: a DestructiveSavePath call that finds its digest in have, removes its
\* path and returns the digest, does so with the blob's file in the store, and
\* a call whose rename has succeeded leaves the file there.
C24_DestructiveSaveStored ==
  [][\A t \in Jobs :
       /\ \A d \in Hashes :
            ((\E mem \in BOOLEAN : DestructiveSavePath(t, d, mem)) /\ HasHash(d))
              => d \in onDisk
       /\ (DspRename(t) /\ ~fatal') => sdig[t] \in onDisk']_vars

\* C31: the waiter never sends on a channel that has been closed and never
\* closes a channel a second time: no sequence of getChannel, broadcast, flush
\* and wait ends in one of these two run-time panics.
C31_NoSendOrCloseOnClosed ==
  /\ panicked # "send on closed channel"
  /\ panicked # "close of closed channel"

\* C32: the waiter is deadlock-free: for every number of jobs and every order
\* of completions no broadcast blocks forever on a full channel, so while the
\* process runs a producer that has reached its broadcast returns from wait,
\* and so does an observer whose FileSetId has been sent to its channel.
C32_WaitReturns ==
  \A t \in Jobs :
    (\/ wpc[t] = "bcast"
     \/ wpc[t] = "recv" /\ rep[t].id \in ended /\ t \in regd[rep[t].id])
      ~> (wpc[t] = "returned" \/ ~Alive)

\* C33: no queued change is lost or reordered on a mirror: whenever no
\* sendFiles is between its successful Mirror.Update and the clearing of the
\* queue, the FileAttrs appended to pendingChanges so far are, in the order
\* they were appended, those carried by the successful Mirror.Update calls,
\* each once, followed by those still in the queue.
C33_NoChangeLostOrReordered ==
  (\A t \in Jobs : sfpc[t] # "clear") => appended = carried \o pendingChanges[1]

\* Two Mirror.Update calls have succeeded, a FileSet was queued between them,
\* and more is queued behind them.
C33_Witness ==
  /\ \A t \in Jobs : sfpc[t] = "idle"
  /\ Len(carried) >= 3
  /\ carried[1] = 1 /\ carried[2] = 1
  /\ pendingChanges[1] # <<>>
====
